---- MODULE Spec2Model ----
(***************************************************************************)
(* Liquid-staking pallet (pallets/liquid-staking/src/lib.rs): the          *)
(* stake/unstake matching pool, the per-derivative staking ledgers, the    *)
(* XCM request tracker, the era clock and fast unstake.                    *)
(*                                                                         *)
(* Every dispatchable is #[transactional]: it is modelled as a function    *)
(* from the storage (a record) to a result [err, st]; an action commits    *)
(* st when err = "Ok" and leaves the storage untouched otherwise.          *)
(* Balances are u128 in the pallet; the model keeps them far below 2^128,  *)
(* so checked_add/saturating_add never overflow, while every subtraction   *)
(* keeps the checked or saturating form the source gives it.               *)
(***************************************************************************)
EXTENDS Integers, Sequences, FiniteSets, TLC

(* ------------------------------------------------------------------ *)
(* Configuration (Config trait constants and genesis values)           *)
(* ------------------------------------------------------------------ *)
DerivativeIndexList == <<0, 1>>
XcmFees == 1
MinStake == 2
MinUnstake == 1
BondingDuration == 1
MinNominatorBond == 1
EraLength == 2
ElectionSolutionStoredOffset == 1
MAX_UNLOCKING_CHUNKS == 32
StakingLedgerCap == 2

\* Rate is a fixed-point number inner / RateDiv (FixedU128 scaled down).
RateDiv == 2
\* genesis exchange rate 1.0, reserve factor 1/4, fast-unstake fee 1/RateDiv
GenesisExchangeRate == RateDiv
ReserveFactorNum == 1
ReserveFactorDen == 4
MatchingPoolFastUnstakeFee == 1
LoansInstantUnstakeFee == 1

(* ------------------------------------------------------------------ *)
(* Bounds of the exploration                                            *)
(* ------------------------------------------------------------------ *)
MaxQueryId == 3
MaxRelayBlock == 1
MaxTickBlock == 4
MaxEra == 2
InitialBalance == 5
MaxReward == 1
MaxPoolTotal == 4
MaxUnbonding == 3
MaxRate == 3
MaxRateInput == 2
MaxIssuance == 3
MaxAmount == 8

Users == {"alice"}
PalletAccount == "pallet"
LoansAccount == "loans"
ProtocolFeeReceiver == "fees"
StakeAmounts == {5}
UnstakeAmounts == {1}
BondAmounts == {1, 2}
RecordAmounts == {1, 2}
Indices == {DerivativeIndexList[i] : i \in 1..Len(DerivativeIndexList)}
QueryIds == 0..(MaxQueryId - 1)

(* ------------------------------------------------------------------ *)
(* Small helpers                                                        *)
(* ------------------------------------------------------------------ *)
None == <<>>
Some(x) == <<x>>
IsSome(o) == Len(o) = 1
Unwrap(o) == o[1]

Min(a, b) == IF a <= b THEN a ELSE b
SatSub(a, b) == IF a >= b THEN a - b ELSE 0

Ok(s) == [err |-> "Ok", st |-> s]
Err(e, s) == [err |-> e, st |-> s]
\* the `?` operator: continue with F on the new storage, or propagate the error
Then(r, F(_)) == IF r.err = "Ok" THEN F(r.st) ELSE r

RECURSIVE SumValues(_)
SumValues(chunks) ==
    IF chunks = <<>> THEN 0 ELSE chunks[1].value + SumValues(Tail(chunks))

(* ------------------------------------------------------------------ *)
(* Rate arithmetic (FixedPointNumber: every rounding is towards zero)   *)
(* ------------------------------------------------------------------ *)
\* Rate::checked_mul_int / saturating_mul_int
MulInt(rate, n) == (rate * n) \div RateDiv
\* Rate::reciprocal: None for a zero rate
Reciprocal(rate) == IF rate = 0 THEN None ELSE Some((RateDiv * RateDiv) \div rate)
\* Rate::checked_from_rational(n, d), d # 0
FromRational(n, d) == (n * RateDiv) \div d

\* a conversion to derivative that multiplies by the rate, not its reciprocal
staking_to_liquid_direct(s, amount) == Some(MulInt(s.ExchangeRate, amount))

staking_to_liquid(s, amount) ==
    LET r == Reciprocal(s.ExchangeRate)
    IN  IF IsSome(r) THEN Some(MulInt(Unwrap(r), amount)) ELSE None

liquid_to_staking(s, liquid_amount) == Some(MulInt(s.ExchangeRate, liquid_amount))

(* ------------------------------------------------------------------ *)
(* MatchingLedger (types.rs is not among the sources: modelled from     *)
(* sections 3 and 4.2 of the specification)                             *)
(* ------------------------------------------------------------------ *)
EmptyAmount == [total |-> 0, locked |-> 0]
EmptyPool == [total_stake_amount |-> EmptyAmount, total_unstake_amount |-> EmptyAmount]

\* free() = total - locked, fails if negative
free(a) ==
    IF a.total >= a.locked THEN [err |-> "Ok", v |-> a.total - a.locked]
    ELSE [err |-> "Underflow", v |-> 0]

add_stake_amount(p, amount) ==
    [err |-> "Ok",
     v |-> [p EXCEPT !.total_stake_amount.total = @ + amount]]

add_unstake_amount(p, amount) ==
    [err |-> "Ok",
     v |-> [p EXCEPT !.total_unstake_amount.total = @ + amount]]

sub_stake_amount(p, amount) ==
    IF p.total_stake_amount.total >= amount
    THEN [err |-> "Ok", v |-> [p EXCEPT !.total_stake_amount.total = @ - amount]]
    ELSE [err |-> "Underflow", v |-> p]

\* adds to locked; fails if locked would exceed total
set_stake_amount_lock(p, amount) ==
    IF p.total_stake_amount.locked + amount <= p.total_stake_amount.total
    THEN [err |-> "Ok", v |-> [p EXCEPT !.total_stake_amount.locked = @ + amount]]
    ELSE [err |-> "Overflow", v |-> p]

set_unstake_amount_lock(p, amount) ==
    IF p.total_unstake_amount.locked + amount <= p.total_unstake_amount.total
    THEN [err |-> "Ok", v |-> [p EXCEPT !.total_unstake_amount.locked = @ + amount]]
    ELSE [err |-> "Overflow", v |-> p]

\* subtracts amount from total and from locked; fails if either would go negative
consolidate_stake(p, amount) ==
    IF p.total_stake_amount.total >= amount /\ p.total_stake_amount.locked >= amount
    THEN [err |-> "Ok",
          v |-> [p EXCEPT !.total_stake_amount.total = @ - amount,
                          !.total_stake_amount.locked = @ - amount]]
    ELSE [err |-> "Underflow", v |-> p]

consolidate_unstake(p, amount) ==
    IF p.total_unstake_amount.total >= amount /\ p.total_unstake_amount.locked >= amount
    THEN [err |-> "Ok",
          v |-> [p EXCEPT !.total_unstake_amount.total = @ - amount,
                          !.total_unstake_amount.locked = @ - amount]]
    ELSE [err |-> "Underflow", v |-> p]

\* match(totalCurrentlyUnbonding) -> (bond, rebond, unbond), section 4.2 as written
matching(p, unbonding_amount) ==
    LET fs == free(p.total_stake_amount)
        fu == free(p.total_unstake_amount)
    IN  IF fs.err # "Ok" \/ fu.err # "Ok"
        THEN [err |-> "Underflow", bond |-> 0, rebond |-> 0, unbond |-> 0]
        ELSE IF fs.v >= fu.v
        THEN [err |-> "Ok", bond |-> fs.v - fu.v,
              rebond |-> Min(fu.v, unbonding_amount), unbond |-> 0]
        ELSE LET rebond_amount == Min(fs.v, unbonding_amount)
             IN  [err |-> "Ok", bond |-> 0, rebond |-> rebond_amount,
                  unbond |-> (fu.v - fs.v) - rebond_amount]

(* ------------------------------------------------------------------ *)
(* StakingLedger (types.rs is not among the sources: modelled from      *)
(* sections 3 and 4.3 of the specification; the callers in lib.rs use   *)
(* every method as infallible, so a subtraction saturates)              *)
(* ------------------------------------------------------------------ *)
new_ledger(amount) == [total |-> amount, active |-> amount, unlocking |-> <<>>]

bond_extra(l, value) == [l EXCEPT !.active = @ + value, !.total = @ + value]

\* merge with the last chunk if its era matches, else append
push_chunk(chunks, value, era) ==
    IF chunks # <<>> /\ chunks[Len(chunks)].era = era
    THEN [chunks EXCEPT ![Len(chunks)].value = @ + value]
    ELSE Append(chunks, [value |-> value, era |-> era])

ledger_unbond(l, value, target_era) ==
    [l EXCEPT !.unlocking = push_chunk(@, value, target_era),
              !.active = SatSub(@, value)]

\* take `value` from the tail of unlocking, latest chunks first
RECURSIVE rebond_chunks(_, _)
rebond_chunks(chunks, value) ==
    IF value = 0 \/ chunks = <<>> THEN [chunks |-> chunks, rebonded |-> 0]
    ELSE LET last == chunks[Len(chunks)]
             front == SubSeq(chunks, 1, Len(chunks) - 1)
         IN  IF last.value <= value
             THEN LET r == rebond_chunks(front, value - last.value)
                  IN  [chunks |-> r.chunks, rebonded |-> r.rebonded + last.value]
             ELSE [chunks |-> Append(front, [last EXCEPT !.value = @ - value]),
                   rebonded |-> value]

ledger_rebond(l, value) ==
    LET r == rebond_chunks(l.unlocking, value)
    IN  [l EXCEPT !.unlocking = r.chunks, !.active = @ + r.rebonded]

RECURSIVE keep_locked(_, _)
keep_locked(chunks, current_era) ==
    IF chunks = <<>> THEN <<>>
    ELSE IF chunks[1].era > current_era
         THEN <<chunks[1]>> \o keep_locked(Tail(chunks), current_era)
         ELSE keep_locked(Tail(chunks), current_era)

\* drop the chunks with era <= current_era and take their sum out of total
consolidate_unlocked(l, current_era) ==
    LET kept == keep_locked(l.unlocking, current_era)
    IN  [l EXCEPT !.unlocking = kept,
                  !.total = SatSub(@, SumValues(l.unlocking) - SumValues(kept))]

(* ------------------------------------------------------------------ *)
(* DistributionStrategy (distribution.rs is not among the sources:      *)
(* modelled from section 9 and scenario A: fill the delegates in list   *)
(* order, each up to what it can take)                                  *)
(* ------------------------------------------------------------------ *)
\* amounts: sequence of [index, active, total]; result: sequence of [index, amount]
RECURSIVE get_bond_distributions(_, _, _, _)
get_bond_distributions(amounts, input, cap, min_nominator_bond) ==
    IF amounts = <<>> \/ input = 0 THEN <<>>
    ELSE LET a == amounts[1]
             amount == Min(SatSub(cap, a.total), input)
         IN  IF amount = 0 \/ a.active + amount < min_nominator_bond
             THEN get_bond_distributions(Tail(amounts), input, cap, min_nominator_bond)
             ELSE <<[index |-> a.index, amount |-> amount]>>
                  \o get_bond_distributions(Tail(amounts), input - amount, cap,
                                            min_nominator_bond)

\* amounts: sequence of [index, active]
RECURSIVE get_unbond_distributions(_, _, _)
get_unbond_distributions(amounts, input, min_nominator_bond) ==
    IF amounts = <<>> \/ input = 0 THEN <<>>
    ELSE LET a == amounts[1]
             amount == Min(SatSub(a.active, min_nominator_bond), input)
         IN  IF amount = 0
             THEN get_unbond_distributions(Tail(amounts), input, min_nominator_bond)
             ELSE <<[index |-> a.index, amount |-> amount]>>
                  \o get_unbond_distributions(Tail(amounts), input - amount,
                                              min_nominator_bond)

\* amounts: sequence of [index, unbonding]
RECURSIVE get_rebond_distributions(_, _)
get_rebond_distributions(amounts, input) ==
    IF amounts = <<>> \/ input = 0 THEN <<>>
    ELSE LET a == amounts[1]
             amount == Min(a.unbonding, input)
         IN  IF amount = 0
             THEN get_rebond_distributions(Tail(amounts), input)
             ELSE <<[index |-> a.index, amount |-> amount]>>
                  \o get_rebond_distributions(Tail(amounts), input - amount)

(* ------------------------------------------------------------------ *)
(* Storage                                                              *)
(* ------------------------------------------------------------------ *)
VARIABLES
    matchingPool,         \* MatchingPool
    stakingLedgers,       \* StakingLedgers: index -> Option<StakingLedger>
    isUpdated,            \* IsUpdated: index -> bool
    xcmRequests,          \* XcmRequests: query id -> Option<XcmRequest>
    nextQueryId,          \* the next query id the XCM transport hands out
    currentEra,           \* CurrentEra
    eraStartBlock,        \* EraStartBlock
    isMatched,            \* IsMatched
    exchangeRate,         \* ExchangeRate (inner value, scale RateDiv)
    totalReserves,        \* TotalReserves
    unlockings,           \* Unlockings: account -> Option<Vec<UnlockChunk>>
    fastUnstakeRequests,  \* FastUnstakeRequests: account -> Option<Balance>
    stakingBalance,       \* staking-currency balances (T::Assets)
    liquidBalance,        \* liquid-currency balances (T::Assets)
    loansBorrow,          \* the pallet account's borrow balance in T::Loans
    relayBlock,           \* RelayChainValidationDataProvider::current_block_number
    applied,              \* per query id: how often its effect was applied
    failedRequest,        \* the first request a failure was reported for, and its id
    matched               \* the last result of MatchingLedger::matching

vars == <<matchingPool, stakingLedgers, isUpdated, xcmRequests, nextQueryId,
          currentEra, eraStartBlock, isMatched, exchangeRate, totalReserves,
          unlockings, fastUnstakeRequests, stakingBalance, liquidBalance,
          loansBorrow, relayBlock, applied, failedRequest, matched>>

StakingAccounts == Users \cup {PalletAccount}
LiquidAccounts == Users \cup {ProtocolFeeReceiver}
UnlockingAccounts == Users \cup {LoansAccount}

\* the storage as one value; xcmLeft is how many more messages the XCM
\* transport accepts within the running entry point
Cur(xcm_left) ==
    [MatchingPool |-> matchingPool, StakingLedgers |-> stakingLedgers,
     IsUpdated |-> isUpdated, XcmRequests |-> xcmRequests,
     NextQueryId |-> nextQueryId, CurrentEra |-> currentEra,
     EraStartBlock |-> eraStartBlock, IsMatched |-> isMatched,
     ExchangeRate |-> exchangeRate, TotalReserves |-> totalReserves,
     Unlockings |-> unlockings, FastUnstakeRequests |-> fastUnstakeRequests,
     StakingBalance |-> stakingBalance, LiquidBalance |-> liquidBalance,
     LoansBorrow |-> loansBorrow, RelayBlock |-> relayBlock,
     xcmLeft |-> xcm_left]

(* ------------------------------------------------------------------ *)
(* T::Assets (token ledger collaborator)                                *)
(* ------------------------------------------------------------------ *)
\* transfer between two tracked staking-currency accounts
transfer_staking(s, from, to, amount) ==
    IF s.StakingBalance[from] < amount THEN Err("BalanceLow", s)
    ELSE IF from = to THEN Ok(s)
    ELSE Ok([s EXCEPT !.StakingBalance[from] = @ - amount,
                      !.StakingBalance[to] = @ + amount])

\* burn_from, or a transfer to an account the model does not track
burn_staking(s, from, amount) ==
    IF s.StakingBalance[from] < amount THEN Err("BalanceLow", s)
    ELSE Ok([s EXCEPT !.StakingBalance[from] = @ - amount])

mint_staking(s, to, amount) == Ok([s EXCEPT !.StakingBalance[to] = @ + amount])

mint_liquid(s, to, amount) == Ok([s EXCEPT !.LiquidBalance[to] = @ + amount])

burn_liquid(s, from, amount) ==
    IF s.LiquidBalance[from] < amount THEN Err("BalanceLow", s)
    ELSE Ok([s EXCEPT !.LiquidBalance[from] = @ - amount])

transfer_liquid(s, from, to, amount) ==
    IF s.LiquidBalance[from] < amount THEN Err("BalanceLow", s)
    ELSE IF from = to THEN Ok(s)
    ELSE Ok([s EXCEPT !.LiquidBalance[from] = @ - amount,
                      !.LiquidBalance[to] = @ + amount])

RECURSIVE SumBalances(_, _)
SumBalances(f, accounts) ==
    IF accounts = {} THEN 0
    ELSE LET a == CHOOSE x \in accounts : TRUE
         IN  f[a] + SumBalances(f, accounts \ {a})

total_issuance_liquid(s) == SumBalances(s.LiquidBalance, LiquidAccounts)

(* ------------------------------------------------------------------ *)
(* Ledger accessors                                                     *)
(* ------------------------------------------------------------------ *)
contains_ledger(s, index) == index \in Indices /\ IsSome(s.StakingLedgers[index])

total_bonded_of(s, index) ==
    IF contains_ledger(s, index) THEN Unwrap(s.StakingLedgers[index]).total ELSE 0

active_bonded_of(s, index) ==
    IF contains_ledger(s, index) THEN Unwrap(s.StakingLedgers[index]).active ELSE 0

unbonding_of(s, index) ==
    IF contains_ledger(s, index)
    THEN SatSub(Unwrap(s.StakingLedgers[index]).total,
                Unwrap(s.StakingLedgers[index]).active)
    ELSE 0

RECURSIVE matured_sum(_, _)
matured_sum(chunks, current_era) ==
    IF chunks = <<>> THEN 0
    ELSE (IF chunks[1].era <= current_era THEN chunks[1].value ELSE 0)
         + matured_sum(Tail(chunks), current_era)

unbonded_of(s, index) ==
    IF contains_ledger(s, index)
    THEN matured_sum(Unwrap(s.StakingLedgers[index]).unlocking, s.CurrentEra)
    ELSE 0

\* the per-derivative figures the distribution strategies are given
ledger_amounts(s) ==
    [k \in 1..Len(DerivativeIndexList) |->
        [index |-> DerivativeIndexList[k],
         active |-> active_bonded_of(s, DerivativeIndexList[k]),
         total |-> total_bonded_of(s, DerivativeIndexList[k]),
         unbonding |-> unbonding_of(s, DerivativeIndexList[k])]]

RECURSIVE SumField(_, _)
SumField(list, field) ==
    IF list = <<>> THEN 0 ELSE list[1][field] + SumField(Tail(list), field)

get_total_unbonding(s) == SumField(ledger_amounts(s), "unbonding")
get_total_bonded(s) == SumField(ledger_amounts(s), "total")
get_total_active_bonded(s) == SumField(ledger_amounts(s), "active")
get_market_cap == StakingLedgerCap * Len(DerivativeIndexList)

\* an unclaimed total that counts the stake waiting in the pool
get_total_unclaimed_gross(s) ==
    SatSub(s.StakingBalance[PalletAccount], s.TotalReserves)

get_total_unclaimed(s) ==
    SatSub(SatSub(s.StakingBalance[PalletAccount], s.TotalReserves),
           s.MatchingPool.total_stake_amount.total)

\* a target era without the one era of delay
target_era_undelayed(s) == s.CurrentEra + BondingDuration

target_era(s) == s.CurrentEra + BondingDuration + 1

offset(s, relaychain_block_number) ==
    IF relaychain_block_number >= s.EraStartBlock
    THEN (relaychain_block_number - s.EraStartBlock) \div EraLength
    ELSE 0

\* a cap check that lets every amount through
ensure_market_cap_open(s, amount) == Ok(s)

ensure_market_cap(s, amount) ==
    IF get_total_bonded(s) + amount <= get_market_cap THEN Ok(s)
    ELSE Err("CapExceeded", s)

ensure_staking_ledger_cap(s, derivative_index, amount) ==
    IF total_bonded_of(s, derivative_index) + amount <= StakingLedgerCap THEN Ok(s)
    ELSE Err("CapExceeded", s)

\* MatchingPool::try_mutate(|p| p.f(amount))
mutate_pool(s, r) ==
    IF r.err = "Ok" THEN Ok([s EXCEPT !.MatchingPool = r.v]) ELSE Err(r.err, s)

(* ------------------------------------------------------------------ *)
(* XCM submissions (T::XCM::do_* followed by XcmRequests::insert)       *)
(* ------------------------------------------------------------------ *)
\* T::XCM::do_*: fails when the transport takes no more messages; "Bound"
\* marks the end of the query ids the exploration hands out
xcm_send(s, request) ==
    IF s.xcmLeft = 0 THEN Err("XcmError", s)
    ELSE IF s.NextQueryId >= MaxQueryId THEN Err("Bound", s)
    ELSE Ok([s EXCEPT !.XcmRequests[s.NextQueryId] = Some(request),
                      !.NextQueryId = @ + 1,
                      !.xcmLeft = @ - 1])

Request(kind, index, amount) == [kind |-> kind, index |-> index, amount |-> amount]

do_bond_extra(s, derivative_index, amount) ==
    IF amount = 0 THEN Ok(s)
    ELSE IF derivative_index \notin Indices THEN Err("InvalidDerivativeIndex", s)
    ELSE IF ~contains_ledger(s, derivative_index) THEN Err("NotBonded", s)
    ELSE Then(ensure_staking_ledger_cap(s, derivative_index, amount), LAMBDA s1 :
         Then(mutate_pool(s1, set_stake_amount_lock(s1.MatchingPool, amount)), LAMBDA s2 :
         xcm_send(s2, Request("BondExtra", derivative_index, amount))))

do_bond(s, derivative_index, amount) ==
    IF amount = 0 THEN Ok(s)
    ELSE IF contains_ledger(s, derivative_index)
    THEN do_bond_extra(s, derivative_index, amount)
    ELSE IF derivative_index \notin Indices THEN Err("InvalidDerivativeIndex", s)
    ELSE IF amount < MinNominatorBond THEN Err("InsufficientBond", s)
    ELSE Then(ensure_staking_ledger_cap(s, derivative_index, amount), LAMBDA s1 :
         Then(mutate_pool(s1, set_stake_amount_lock(s1.MatchingPool, amount)), LAMBDA s2 :
         xcm_send(s2, Request("Bond", derivative_index, amount))))

do_unbond(s, derivative_index, amount) ==
    IF amount = 0 THEN Ok(s)
    ELSE IF derivative_index \notin Indices THEN Err("InvalidDerivativeIndex", s)
    ELSE IF ~contains_ledger(s, derivative_index) THEN Err("NotBonded", s)
    ELSE LET ledger == Unwrap(s.StakingLedgers[derivative_index])
         IN  IF ~(Len(ledger.unlocking) < MAX_UNLOCKING_CHUNKS)
             THEN Err("NoMoreChunks", s)
             ELSE IF ~(SatSub(ledger.active, amount) >= MinNominatorBond)
             THEN Err("InsufficientBond", s)
             ELSE Then(mutate_pool(s, set_unstake_amount_lock(s.MatchingPool, amount)),
                       LAMBDA s1 :
                       xcm_send(s1, Request("Unbond", derivative_index, amount)))

do_rebond(s, derivative_index, amount) ==
    IF amount = 0 THEN Ok(s)
    ELSE IF derivative_index \notin Indices THEN Err("InvalidDerivativeIndex", s)
    ELSE IF ~contains_ledger(s, derivative_index) THEN Err("NotBonded", s)
    ELSE Then(mutate_pool(s, set_stake_amount_lock(s.MatchingPool, amount)), LAMBDA s1 :
         xcm_send(s1, Request("Rebond", derivative_index, amount)))

do_withdraw_unbonded(s, derivative_index) ==
    IF unbonded_of(s, derivative_index) = 0 THEN Ok(s)
    ELSE IF derivative_index \notin Indices THEN Err("InvalidDerivativeIndex", s)
    ELSE IF ~contains_ledger(s, derivative_index) THEN Err("NotBonded", s)
    ELSE xcm_send(s, Request("WithdrawUnbonded", derivative_index, 0))

do_nominate(s, derivative_index) ==
    IF derivative_index \notin Indices THEN Err("InvalidDerivativeIndex", s)
    ELSE IF ~contains_ledger(s, derivative_index) THEN Err("NotBonded", s)
    ELSE xcm_send(s, Request("Nominate", derivative_index, 0))

\* for (index, amount) in distributions { Self::do_<kind>(index, amount)? }
submit_one(s, kind, index, amount) ==
    CASE kind = "bond" -> do_bond(s, index, amount)
      [] kind = "unbond" -> do_unbond(s, index, amount)
      [] kind = "rebond" -> do_rebond(s, index, amount)

RECURSIVE for_each(_, _, _)
for_each(s, distributions, kind) ==
    IF distributions = <<>> THEN Ok(s)
    ELSE LET r == submit_one(s, kind, distributions[1].index, distributions[1].amount)
         IN  IF r.err = "Ok" THEN for_each(r.st, Tail(distributions), kind) ELSE r

\* a bond round that submits the first share only
do_multi_bond_first(s, total_amount) ==
    IF total_amount = 0 THEN Ok(s)
    ELSE for_each(s,
                  SubSeq(get_bond_distributions(ledger_amounts(s), total_amount,
                                                StakingLedgerCap, MinNominatorBond),
                         1, 1),
                  "bond")

do_multi_bond(s, total_amount) ==
    IF total_amount = 0 THEN Ok(s)
    ELSE for_each(s,
                  get_bond_distributions(ledger_amounts(s), total_amount,
                                         StakingLedgerCap, MinNominatorBond),
                  "bond")

do_multi_unbond(s, total_amount) ==
    IF total_amount = 0 THEN Ok(s)
    ELSE for_each(s,
                  get_unbond_distributions(ledger_amounts(s), total_amount,
                                           MinNominatorBond),
                  "unbond")

do_multi_rebond(s, total_amount) ==
    IF total_amount = 0 THEN Ok(s)
    ELSE for_each(s, get_rebond_distributions(ledger_amounts(s), total_amount),
                  "rebond")

\* for derivative_index in StakingLedgers::iter_keys()
RECURSIVE do_multi_withdraw_unbonded_from(_, _)
do_multi_withdraw_unbonded_from(s, list) ==
    IF list = <<>> THEN Ok(s)
    ELSE IF ~contains_ledger(s, list[1])
         THEN do_multi_withdraw_unbonded_from(s, Tail(list))
         ELSE Then(do_withdraw_unbonded(s, list[1]), LAMBDA s1 :
                   do_multi_withdraw_unbonded_from(s1, Tail(list)))

do_multi_withdraw_unbonded(s) == do_multi_withdraw_unbonded_from(s, DerivativeIndexList)

(* ------------------------------------------------------------------ *)
(* Confirmations, exchange rate, matching, era                          *)
(* ------------------------------------------------------------------ *)
\* StakingLedgers::try_mutate(index, |ledger| { cb(ledger)?; IsUpdated = true })
\* cb(s, ledger) gives [err, st, ledger]
do_update_ledger(s, derivative_index, cb(_, _)) ==
    IF ~contains_ledger(s, derivative_index) THEN Err("NotBonded", s)
    ELSE LET r == cb(s, Unwrap(s.StakingLedgers[derivative_index]))
         IN  IF r.err # "Ok" THEN Err(r.err, s)
             ELSE Ok([r.st EXCEPT !.StakingLedgers[derivative_index] = Some(r.ledger),
                                  !.IsUpdated[derivative_index] = TRUE])

\* a request that stays in XcmRequests after its effect
remove_request_never(s, query_id) == Ok(s)

\* XcmRequests::<T>::remove(query_id)
remove_request(s, query_id) == Ok([s EXCEPT !.XcmRequests[query_id] = None])

\* the accumulator a request of this kind has locked its amount in
locks_stake(req) == req.kind \in {"Bond", "BondExtra", "Rebond"}
locks_unstake(req) == req.kind = "Unbond"

\* a failure that drops the request
not_executed_dropping(s, query_id, req) == remove_request(s, query_id)

\* a failure that consolidates the locked amount as a success does
not_executed_consolidating(s, query_id, req) ==
    IF locks_stake(req) THEN mutate_pool(s, consolidate_stake(s.MatchingPool, req.amount))
    ELSE IF locks_unstake(req)
    THEN mutate_pool(s, consolidate_unstake(s.MatchingPool, req.amount))
    ELSE Ok(s)

\* a failure that gives the locked amount back to the free amount
not_executed_releasing(s, query_id, req) ==
    IF locks_stake(req)
    THEN Ok([s EXCEPT !.MatchingPool.total_stake_amount.locked = SatSub(@, req.amount)])
    ELSE IF locks_unstake(req)
    THEN Ok([s EXCEPT !.MatchingPool.total_unstake_amount.locked = SatSub(@, req.amount)])
    ELSE Ok(s)

\* if !executed { return Ok(()); }: nothing is applied, nothing is removed
not_executed(s, query_id, req) == Ok(s)

\* the Unbond arm: ledger.unbond(amount, current_era + BondingDuration), then
\* consolidate_unstake(amount)
unbond_confirmed(s, req) ==
    Then(do_update_ledger(s, req.index, LAMBDA s0, ledger :
            [err |-> "Ok", st |-> s0,
             ledger |-> ledger_unbond(ledger, req.amount,
                                      s.CurrentEra + BondingDuration)]),
         LAMBDA s1 :
         mutate_pool(s1, consolidate_unstake(s1.MatchingPool, req.amount)))

\* a Rebond arm that consolidates what the ledger could take back
rebond_confirmed_actual(s, req) ==
    LET ledger == Unwrap(s.StakingLedgers[req.index])
        rebonded == IF contains_ledger(s, req.index)
                    THEN rebond_chunks(ledger.unlocking, req.amount).rebonded ELSE 0
    IN  Then(do_update_ledger(s, req.index, LAMBDA s0, l :
                [err |-> "Ok", st |-> s0, ledger |-> ledger_rebond(l, req.amount)]),
             LAMBDA s1 :
             mutate_pool(s1, consolidate_stake(s1.MatchingPool, rebonded)))

\* the Rebond arm: ledger.rebond(amount), then consolidate_stake(amount)
rebond_confirmed(s, req) ==
    Then(do_update_ledger(s, req.index, LAMBDA s0, ledger :
            [err |-> "Ok", st |-> s0, ledger |-> ledger_rebond(ledger, req.amount)]),
         LAMBDA s1 :
         mutate_pool(s1, consolidate_stake(s1.MatchingPool, req.amount)))

do_notification_received(s, query_id, req, executed) ==
    IF ~executed THEN not_executed(s, query_id, req)
    ELSE LET effect ==
             CASE req.kind = "Bond" ->
                    IF contains_ledger(s, req.index) THEN Err("AlreadyBonded", s)
                    ELSE Then(mutate_pool(
                                [s EXCEPT !.StakingLedgers[req.index] =
                                              Some(new_ledger(req.amount))],
                                consolidate_stake(s.MatchingPool, req.amount)),
                              LAMBDA s1 : burn_staking(s1, PalletAccount, req.amount))
               [] req.kind = "BondExtra" ->
                    Then(do_update_ledger(s, req.index, LAMBDA s0, ledger :
                            [err |-> "Ok", st |-> s0,
                             ledger |-> bond_extra(ledger, req.amount)]),
                         LAMBDA s1 :
                    Then(mutate_pool(s1, consolidate_stake(s1.MatchingPool, req.amount)),
                         LAMBDA s2 : burn_staking(s2, PalletAccount, req.amount)))
               [] req.kind = "Unbond" -> unbond_confirmed(s, req)
               [] req.kind = "Rebond" -> rebond_confirmed(s, req)
               [] req.kind = "WithdrawUnbonded" ->
                    do_update_ledger(s, req.index, LAMBDA s0, ledger :
                        LET after == consolidate_unlocked(ledger, s0.CurrentEra)
                            amount == SatSub(ledger.total, after.total)
                        IN  [err |-> "Ok",
                             st |-> mint_staking(s0, PalletAccount, amount).st,
                             ledger |-> after])
               [] req.kind = "Nominate" -> Ok(s)
         IN  Then(effect, LAMBDA s1 : remove_request(s1, query_id))

\* a recomputation that stores the new rate whatever the old one is
do_update_exchange_rate_always(s) ==
    LET issuance == total_issuance_liquid(s)
        bonded == get_total_active_bonded(s) + s.MatchingPool.total_stake_amount.total
    IN  IF issuance = 0 THEN Ok(s)
        ELSE IF bonded < s.MatchingPool.total_unstake_amount.total
        THEN Err("Overflow", s)
        ELSE Ok([s EXCEPT !.ExchangeRate =
                    FromRational(bonded - s.MatchingPool.total_unstake_amount.total,
                                 issuance)])

do_update_exchange_rate(s) ==
    LET issuance == total_issuance_liquid(s)
        bonded == get_total_active_bonded(s) + s.MatchingPool.total_stake_amount.total
    IN  IF issuance = 0 THEN Ok(s)
        ELSE IF bonded < s.MatchingPool.total_unstake_amount.total
        THEN Err("Overflow", s)
        ELSE LET new_exchange_rate ==
                     FromRational(bonded - s.MatchingPool.total_unstake_amount.total,
                                  issuance)
             IN  IF new_exchange_rate > s.ExchangeRate
                 THEN Ok([s EXCEPT !.ExchangeRate = new_exchange_rate])
                 ELSE Ok(s)

\* a round that bonds the whole free stake instead of the bond amount of the
\* matching
do_matching_gross(s) ==
    LET m == matching(s.MatchingPool, get_total_unbonding(s))
    IN  IF m.err # "Ok" THEN Err(m.err, s)
        ELSE IF m.bond < 0 \/ m.rebond < 0 \/ m.unbond < 0 THEN Err("Underflow", s)
        ELSE Then(do_multi_bond([s EXCEPT !.IsMatched = TRUE],
                                free(s.MatchingPool.total_stake_amount).v),
                  LAMBDA s1 :
             Then(do_multi_rebond(s1, m.rebond), LAMBDA s2 :
             Then(do_multi_unbond(s2, m.unbond), LAMBDA s3 :
             do_multi_withdraw_unbonded(s3))))

\* a round that takes the stake it nets against unstake out of both totals
do_matching_netting(s) ==
    LET fs == free(s.MatchingPool.total_stake_amount).v
        fu == free(s.MatchingPool.total_unstake_amount).v
        netted == Min(fs, fu)
        s0 == [s EXCEPT !.MatchingPool.total_stake_amount.total = @ - netted,
                        !.MatchingPool.total_unstake_amount.total = @ - netted]
        m == matching(s0.MatchingPool, get_total_unbonding(s0))
    IN  IF m.err # "Ok" THEN Err(m.err, s0)
        ELSE IF m.bond < 0 \/ m.rebond < 0 \/ m.unbond < 0 THEN Err("Underflow", s0)
        ELSE Then(do_multi_bond([s0 EXCEPT !.IsMatched = TRUE], m.bond), LAMBDA s1 :
             Then(do_multi_rebond(s1, m.rebond), LAMBDA s2 :
             Then(do_multi_unbond(s2, m.unbond), LAMBDA s3 :
             do_multi_withdraw_unbonded(s3))))

\* Balance is unsigned: a component of the triple that would be negative
\* cannot be returned, the round ends with an arithmetic error
do_matching(s) ==
    LET m == matching(s.MatchingPool, get_total_unbonding(s))
    IN  IF m.err # "Ok" THEN Err(m.err, s)
        ELSE IF m.bond < 0 \/ m.rebond < 0 \/ m.unbond < 0 THEN Err("Underflow", s)
        ELSE Then(do_multi_bond([s EXCEPT !.IsMatched = TRUE], m.bond), LAMBDA s1 :
             Then(do_multi_rebond(s1, m.rebond), LAMBDA s2 :
             Then(do_multi_unbond(s2, m.unbond), LAMBDA s3 :
             do_multi_withdraw_unbonded(s3))))

\* an era advance that gives up when the recomputation of the rate fails
do_advance_era_strict(s, era_offset) ==
    IF era_offset = 0 THEN Ok(s)
    ELSE LET s1 == [s EXCEPT !.EraStartBlock = s.RelayBlock,
                             !.CurrentEra = @ + era_offset]
         IN  Then(do_update_exchange_rate(s1), LAMBDA s2 :
                  Ok([s2 EXCEPT !.IsMatched = FALSE]))

\* an era advance without the early return at offset zero
do_advance_era_eager(s, era_offset) ==
    LET s1 == [s EXCEPT !.EraStartBlock = s.RelayBlock,
                        !.CurrentEra = @ + era_offset]
        r == do_update_exchange_rate(s1)
        s2 == IF r.err = "Ok" THEN r.st ELSE s1
    IN  Ok([s2 EXCEPT !.IsMatched = FALSE])

\* an advance that starts the new era where the eras advanced over end
do_advance_era_aligned(s, era_offset) ==
    IF era_offset = 0 THEN Ok(s)
    ELSE LET s1 == [s EXCEPT !.EraStartBlock = @ + era_offset * EraLength,
                             !.CurrentEra = @ + era_offset]
             r == do_update_exchange_rate(s1)
             s2 == IF r.err = "Ok" THEN r.st ELSE s1
         IN  Ok([s2 EXCEPT !.IsMatched = FALSE])

do_advance_era(s, era_offset) ==
    IF era_offset = 0 THEN Ok(s)
    ELSE LET s1 == [s EXCEPT !.EraStartBlock = s.RelayBlock,
                             !.CurrentEra = @ + era_offset]
             r == do_update_exchange_rate(s1)
             s2 == IF r.err = "Ok" THEN r.st ELSE s1
         IN  Ok([s2 EXCEPT !.IsMatched = FALSE])

(* ------------------------------------------------------------------ *)
(* Claims, loans instant unstake, fast unstake                          *)
(* ------------------------------------------------------------------ *)
\* a payout that takes what it pays out of the total of the first ledger
do_claim_for_withdrawing(s, who, amount) ==
    LET taken == [s EXCEPT !.StakingLedgers[DerivativeIndexList[1]] =
                      IF IsSome(@) THEN Some([Unwrap(@) EXCEPT !.total = SatSub(@, amount)])
                      ELSE @]
    IN  IF who = LoansAccount
        THEN LET repay == Min(taken.LoansBorrow, amount)
             IN  Then(burn_staking(taken, PalletAccount, repay), LAMBDA s1 :
                      Ok([s1 EXCEPT !.LoansBorrow = @ - repay]))
        ELSE transfer_staking(taken, PalletAccount, who, amount)

do_claim_for(s, who, amount) ==
    IF who = LoansAccount
    THEN LET repay == Min(s.LoansBorrow, amount)
         IN  Then(burn_staking(s, PalletAccount, repay), LAMBDA s1 :
                  Ok([s1 EXCEPT !.LoansBorrow = @ - repay]))
    ELSE transfer_staking(s, PalletAccount, who, amount)

\* loans_ok: whether T::Loans accepts the mint, the collateral and the borrow
do_loans_instant_unstake(s, who, amount, loans_ok) ==
    LET fee == MulInt(LoansInstantUnstakeFee, amount)
    IN  IF amount < fee THEN Err("Underflow", s)
        ELSE IF ~loans_ok THEN Err("LoansError", s)
        ELSE Then(mint_staking([s EXCEPT !.LoansBorrow = @ + (amount - fee)],
                               PalletAccount, amount - fee),
                  LAMBDA s1 : transfer_staking(s1, PalletAccount, who, amount - fee))

\* the stake the pool may pay out at once, taken as the whole recorded stake
available_stake_gross(s) ==
    [err |-> "Ok", v |-> s.MatchingPool.total_stake_amount.total]

\* Self::matching_pool().total_stake_amount.free()?: the stake not yet
\* committed to bonding
available_stake(s) == free(s.MatchingPool.total_stake_amount)

do_fast_match_unstake(s, unstaker) ==
    IF ~IsSome(s.FastUnstakeRequests[unstaker]) THEN Ok(s)
    ELSE LET current_liquid_amount == s.LiquidBalance[unstaker]
             request_liquid_amount ==
                 Min(Unwrap(s.FastUnstakeRequests[unstaker]), current_liquid_amount)
             free_stake == available_stake(s)
             available == staking_to_liquid(s, free_stake.v)
         IN  IF free_stake.err # "Ok" THEN Err(free_stake.err, s)
             ELSE IF ~IsSome(available) THEN Err("InvalidExchangeRate", s)
             ELSE LET matched_liquid_amount ==
                          Min(request_liquid_amount, Unwrap(available))
                      matched_fee ==
                          MulInt(MatchingPoolFastUnstakeFee, matched_liquid_amount)
                      liquid_to_burn == SatSub(matched_liquid_amount, matched_fee)
                      staking_to_receive == Unwrap(liquid_to_staking(s, liquid_to_burn))
                      unmatched_amount ==
                          SatSub(request_liquid_amount, matched_liquid_amount)
                      settled ==
                          IF matched_liquid_amount = 0 THEN Ok(s)
                          ELSE Then(burn_liquid(s, unstaker, liquid_to_burn), LAMBDA s1 :
                               Then(transfer_liquid(s1, unstaker, ProtocolFeeReceiver,
                                                    matched_fee), LAMBDA s2 :
                               Then(mutate_pool(s2, sub_stake_amount(s2.MatchingPool,
                                                                     staking_to_receive)),
                                    LAMBDA s3 :
                               transfer_staking(s3, PalletAccount, unstaker,
                                                staking_to_receive))))
                  IN  Then(settled, LAMBDA s4 :
                           Ok([s4 EXCEPT !.FastUnstakeRequests[unstaker] =
                                   IF unmatched_amount # 0 THEN Some(unmatched_amount)
                                   ELSE None]))

(* ------------------------------------------------------------------ *)
(* Dispatchables (origin checks belong to the dispatch layer)           *)
(* ------------------------------------------------------------------ *)
stake(s, who, amount) ==
    IF amount < MinStake THEN Err("StakeTooSmall", s)
    ELSE LET reserves == (ReserveFactorNum * amount) \div ReserveFactorDen
         IN  IF amount < XcmFees THEN Err("Underflow", s)
             ELSE Then(transfer_staking(s, who, PalletAccount, amount - XcmFees),
                       LAMBDA s1 :
                  \* T::XCM::add_xcm_fees: the fees leave the staker's account
                  Then(burn_staking(s1, who, XcmFees), LAMBDA s2 :
                  IF amount - XcmFees < reserves THEN Err("Underflow", s)
                  ELSE LET net == amount - XcmFees - reserves
                           liquid_amount == staking_to_liquid(s2, net)
                       IN  IF ~IsSome(liquid_amount) THEN Err("InvalidExchangeRate", s)
                           ELSE Then(ensure_market_cap(s2, net), LAMBDA s3 :
                                Then(mint_liquid(s3, who, Unwrap(liquid_amount)),
                                     LAMBDA s4 :
                                Then(mutate_pool(s4, add_stake_amount(s4.MatchingPool,
                                                                      net)),
                                     LAMBDA s5 :
                                Ok([s5 EXCEPT !.TotalReserves = @ + reserves]))))))

\* an unstake that stores the chunks however many they are
unstake_unbounded(s, who, liquid_amount, unstake_provider, loans_ok) ==
    IF liquid_amount < MinUnstake THEN Err("UnstakeTooSmall", s)
    ELSE IF unstake_provider = "MatchingPool"
    THEN LET b == IF IsSome(s.FastUnstakeRequests[who])
                  THEN Unwrap(s.FastUnstakeRequests[who]) ELSE 0
         IN  Ok([s EXCEPT !.FastUnstakeRequests[who] =
                     Some(Min(b + liquid_amount, s.LiquidBalance[who]))])
    ELSE LET amount == Unwrap(liquid_to_staking(s, liquid_amount))
             unlockings_key == IF unstake_provider = "Loans" THEN LoansAccount ELSE who
             old == IF IsSome(s.Unlockings[unlockings_key])
                    THEN Unwrap(s.Unlockings[unlockings_key]) ELSE <<>>
             chunks == push_chunk(old, amount, target_era(s))
         IN  Then(burn_liquid([s EXCEPT !.Unlockings[unlockings_key] = Some(chunks)],
                              who, liquid_amount), LAMBDA s1 :
             Then(IF unstake_provider = "Loans"
                  THEN do_loans_instant_unstake(s1, who, amount, loans_ok)
                  ELSE Ok(s1), LAMBDA s2 :
             mutate_pool(s2, add_unstake_amount(s2.MatchingPool, amount))))

\* unstake_provider: "RelayChain", "Loans" or "MatchingPool"
unstake(s, who, liquid_amount, unstake_provider, loans_ok) ==
    IF liquid_amount < MinUnstake THEN Err("UnstakeTooSmall", s)
    ELSE IF unstake_provider = "MatchingPool"
    THEN LET b == IF IsSome(s.FastUnstakeRequests[who])
                  THEN Unwrap(s.FastUnstakeRequests[who]) ELSE 0
         IN  Ok([s EXCEPT !.FastUnstakeRequests[who] =
                     Some(Min(b + liquid_amount, s.LiquidBalance[who]))])
    ELSE LET amount == Unwrap(liquid_to_staking(s, liquid_amount))
             unlockings_key == IF unstake_provider = "Loans" THEN LoansAccount ELSE who
             old == IF IsSome(s.Unlockings[unlockings_key])
                    THEN Unwrap(s.Unlockings[unlockings_key]) ELSE <<>>
             chunks == push_chunk(old, amount, target_era(s))
         IN  IF ~(Len(chunks) <= MAX_UNLOCKING_CHUNKS) THEN Err("NoMoreChunks", s)
             ELSE Then(burn_liquid([s EXCEPT !.Unlockings[unlockings_key] = Some(chunks)],
                                   who, liquid_amount), LAMBDA s1 :
                  Then(IF unstake_provider = "Loans"
                       THEN do_loans_instant_unstake(s1, who, amount, loans_ok)
                       ELSE Ok(s1), LAMBDA s2 :
                  mutate_pool(s2, add_unstake_amount(s2.MatchingPool, amount))))

\* a delivery that takes an id without a request for an error
notification_received_strict(s, query_id, response) ==
    IF response \in {"ExecutionOk", "ExecutionError"}
    THEN IF IsSome(s.XcmRequests[query_id])
         THEN do_notification_received(s, query_id, Unwrap(s.XcmRequests[query_id]),
                                       response = "ExecutionOk")
         ELSE Err("RequestNotFound", s)
    ELSE Ok(s)

\* response: "ExecutionOk" = ExecutionResult(None), "ExecutionError" =
\* ExecutionResult(Some(..)), "Null" = any other Response
notification_received(s, query_id, response) ==
    IF response \in {"ExecutionOk", "ExecutionError"}
    THEN IF IsSome(s.XcmRequests[query_id])
         THEN do_notification_received(s, query_id, Unwrap(s.XcmRequests[query_id]),
                                       response = "ExecutionOk")
         ELSE Ok(s)
    ELSE Ok(s)

\* a claim that leaves the chunks of the current era for the next one
claim_for_early(s, who) ==
    IF ~IsSome(s.Unlockings[who]) THEN Err("NoUnlockings", s)
    ELSE LET chunks == Unwrap(s.Unlockings[who])
             kept == keep_locked(chunks, s.CurrentEra - 1)
             amount == SumValues(chunks) - SumValues(kept)
         IN  IF amount = 0 THEN Err("NothingToClaim", s)
             ELSE IF get_total_unclaimed(s) < amount THEN Err("NotWithdrawn", s)
             ELSE Then(do_claim_for(s, who, amount), LAMBDA s1 :
                       Ok([s1 EXCEPT !.Unlockings[who] =
                               IF kept = <<>> THEN None ELSE Some(kept)]))

claim_for(s, who) ==
    IF ~IsSome(s.Unlockings[who]) THEN Err("NoUnlockings", s)
    ELSE LET chunks == Unwrap(s.Unlockings[who])
             kept == keep_locked(chunks, s.CurrentEra)
             amount == SumValues(chunks) - SumValues(kept)
         IN  IF amount = 0 THEN Err("NothingToClaim", s)
             ELSE IF get_total_unclaimed(s) < amount THEN Err("NotWithdrawn", s)
             ELSE Then(do_claim_for(s, who, amount), LAMBDA s1 :
                       Ok([s1 EXCEPT !.Unlockings[who] =
                               IF kept = <<>> THEN None ELSE Some(kept)]))

force_set_era_start_block(s, block_number) ==
    Ok([s EXCEPT !.EraStartBlock = block_number])

\* an era setter that leaves the matched flag alone
force_set_current_era_keeping(s, era) ==
    Ok([s EXCEPT !.CurrentEra = era])

force_set_current_era(s, era) ==
    Ok([s EXCEPT !.IsMatched = FALSE, !.CurrentEra = era])

force_advance_era(s, era_offset) == do_advance_era(s, era_offset)

force_matching(s) == do_matching(s)

pending_requests(s) == {q \in QueryIds : IsSome(s.XcmRequests[q])}

\* a forced overwrite that does not look at the updated flag
force_set_staking_ledger_unlocked(s, derivative_index, staking_ledger) ==
    do_update_ledger(s, derivative_index, LAMBDA s0, ledger :
        IF ~(pending_requests(s0) = {})
        THEN [err |-> "StakingLedgerLocked", st |-> s0, ledger |-> ledger]
        ELSE [err |-> "Ok", st |-> s0, ledger |-> staking_ledger])

force_set_staking_ledger(s, derivative_index, staking_ledger) ==
    do_update_ledger(s, derivative_index, LAMBDA s0, ledger :
        IF ~(~s0.IsUpdated[derivative_index] /\ pending_requests(s0) = {})
        THEN [err |-> "StakingLedgerLocked", st |-> s0, ledger |-> ledger]
        ELSE [err |-> "Ok", st |-> s0, ledger |-> staking_ledger])

\* proof_ok: verify_merkle_proof(key, value, proof)
set_current_era(s, era, proof_ok) ==
    IF ~proof_ok THEN Err("InvalidProof", s)
    ELSE do_advance_era(s, SatSub(era, s.CurrentEra))

\* CommissionRate and Incentive keep their genesis value of zero, so nothing
\* is minted to the fee receiver and the incentive transfer moves nothing
set_staking_ledger(s, derivative_index, staking_ledger, proof_ok) ==
    do_update_ledger(s, derivative_index, LAMBDA s0, ledger :
        IF s0.IsUpdated[derivative_index]
        THEN [err |-> "StakingLedgerLocked", st |-> s0, ledger |-> ledger]
        ELSE IF ~proof_ok
        THEN [err |-> "InvalidProof", st |-> s0, ledger |-> ledger]
        ELSE [err |-> "Ok", st |-> s0, ledger |-> staking_ledger])

reduce_reserves(s, reduce_amount) ==
    IF s.TotalReserves < reduce_amount THEN Err("Underflow", s)
    ELSE burn_staking([s EXCEPT !.TotalReserves = @ - reduce_amount],
                      PalletAccount, reduce_amount)

\* a cancellation that does not cap the stored request at the balance
cancel_unstake_uncapped(s, who, amount) ==
    LET b == IF IsSome(s.FastUnstakeRequests[who])
             THEN Unwrap(s.FastUnstakeRequests[who]) ELSE 0
    IN  Ok([s EXCEPT !.FastUnstakeRequests[who] = Some(SatSub(b, amount))])

cancel_unstake(s, who, amount) ==
    LET b == IF IsSome(s.FastUnstakeRequests[who])
             THEN Unwrap(s.FastUnstakeRequests[who]) ELSE 0
    IN  Ok([s EXCEPT !.FastUnstakeRequests[who] =
                Some(SatSub(Min(b, s.LiquidBalance[who]), amount))])

RECURSIVE fast_match_unstake(_, _)
fast_match_unstake(s, unstaker_list) ==
    IF unstaker_list = <<>> THEN Ok(s)
    ELSE Then(do_fast_match_unstake(s, unstaker_list[1]), LAMBDA s1 :
              fast_match_unstake(s1, Tail(unstaker_list)))

(* ------------------------------------------------------------------ *)
(* Hooks                                                                *)
(* ------------------------------------------------------------------ *)
\* a block hook that runs a matching round whatever the matched flag says
do_on_initialize_rematching(s) ==
    Then(IF ElectionSolutionStoredOffset + s.EraStartBlock <= s.RelayBlock
         THEN do_matching(s) ELSE Ok(s), LAMBDA s1 :
         do_advance_era(s1, offset(s1, s1.RelayBlock)))

\* the closure do_on_initialize, run inside with_transaction
do_on_initialize(s) ==
    Then(IF ~s.IsMatched /\ ElectionSolutionStoredOffset + s.EraStartBlock <= s.RelayBlock
         THEN do_matching(s) ELSE Ok(s), LAMBDA s1 :
         do_advance_era(s1, offset(s1, s1.RelayBlock)))

on_finalize(s) == Ok([s EXCEPT !.IsUpdated = [i \in Indices |-> FALSE]])

(* ------------------------------------------------------------------ *)
(* The state machine                                                    *)
(* ------------------------------------------------------------------ *)
storage == <<matchingPool, stakingLedgers, isUpdated, xcmRequests, nextQueryId,
             currentEra, eraStartBlock, isMatched, exchangeRate, totalReserves,
             unlockings, fastUnstakeRequests, stakingBalance, liquidBalance,
             loansBorrow>>

Init ==
    /\ matchingPool = EmptyPool
    /\ stakingLedgers = [i \in Indices |-> None]
    /\ isUpdated = [i \in Indices |-> FALSE]
    /\ xcmRequests = [q \in QueryIds |-> None]
    /\ nextQueryId = 0
    /\ currentEra = 0
    /\ eraStartBlock = 0
    /\ isMatched = FALSE
    /\ exchangeRate = GenesisExchangeRate
    /\ totalReserves = 0
    /\ unlockings = [a \in UnlockingAccounts |-> None]
    /\ fastUnstakeRequests = [a \in Users |-> None]
    /\ stakingBalance = [a \in StakingAccounts |->
                            IF a = PalletAccount THEN 0 ELSE InitialBalance]
    /\ liquidBalance = [a \in LiquidAccounts |-> 0]
    /\ loansBorrow = 0
    /\ relayBlock = 0
    /\ applied = [q \in QueryIds |-> 0]
    /\ failedRequest = None
    /\ matched = None

Store(s) ==
    /\ matchingPool' = s.MatchingPool
    /\ stakingLedgers' = s.StakingLedgers
    /\ isUpdated' = s.IsUpdated
    /\ xcmRequests' = s.XcmRequests
    /\ nextQueryId' = s.NextQueryId
    /\ currentEra' = s.CurrentEra
    /\ eraStartBlock' = s.EraStartBlock
    /\ isMatched' = s.IsMatched
    /\ exchangeRate' = s.ExchangeRate
    /\ totalReserves' = s.TotalReserves
    /\ unlockings' = s.Unlockings
    /\ fastUnstakeRequests' = s.FastUnstakeRequests
    /\ stakingBalance' = s.StakingBalance
    /\ liquidBalance' = s.LiquidBalance
    /\ loansBorrow' = s.LoansBorrow

\* the era is explored up to MaxEra eras beyond the eras the relay chain has
\* completed
WithinBounds(s) ==
    s.CurrentEra <= MaxEra + s.RelayBlock \div EraLength

\* an entry point that keeps the writes made before an error
Transact_partial(r) ==
    /\ r.err # "Bound"
    /\ WithinBounds(r.st)
    /\ Store(r.st)

\* #[transactional]: commit on Ok, roll back on any error
Transact(r) ==
    /\ r.err # "Bound"
    /\ r.err = "Ok" => WithinBounds(r.st)
    /\ IF r.err = "Ok" THEN Store(r.st) ELSE UNCHANGED storage

Extrinsic(r) ==
    /\ Transact(r)
    /\ UNCHANGED <<relayBlock, applied, failedRequest, matched>>

Stake ==
    \E who \in Users, amount \in StakeAmounts :
        Extrinsic(stake(Cur(0), who, amount))

UnstakeVia(unstake_provider) ==
    \E who \in Users, liquid_amount \in UnstakeAmounts, loans_ok \in BOOLEAN :
        /\ unstake_provider # "Loans" => loans_ok
        /\ Extrinsic(unstake(Cur(0), who, liquid_amount, unstake_provider, loans_ok))

Unstake ==
    \E unstake_provider \in {"RelayChain", "Loans", "MatchingPool"} :
        UnstakeVia(unstake_provider)

Bond ==
    \E index \in Indices, amount \in BondAmounts, xcm_left \in 0..1 :
        Extrinsic(do_bond(Cur(xcm_left), index, amount))

BondExtra ==
    \E index \in Indices, amount \in BondAmounts :
        Extrinsic(do_bond_extra(Cur(1), index, amount))

Unbond ==
    \E index \in Indices, amount \in BondAmounts :
        Extrinsic(do_unbond(Cur(1), index, amount))

Rebond ==
    \E index \in Indices, amount \in BondAmounts :
        Extrinsic(do_rebond(Cur(1), index, amount))

WithdrawUnbonded ==
    \E index \in Indices :
        Extrinsic(do_withdraw_unbonded(Cur(1), index))

Nominate ==
    \E index \in Indices :
        Extrinsic(do_nominate(Cur(1), index))

Responses == {"ExecutionOk", "ExecutionError", "Null"}

NotificationReceived ==
    \E query_id \in QueryIds, response \in Responses :
        LET r == notification_received(Cur(0), query_id, response)
            was_pending == IsSome(xcmRequests[query_id])
        IN  /\ Transact(r)
            /\ applied' =
                 IF was_pending /\ response = "ExecutionOk" /\ r.err = "Ok"
                 THEN [applied EXCEPT ![query_id] = @ + 1] ELSE applied
            /\ applied'[query_id] <= 2
            /\ failedRequest' =
                 IF was_pending /\ response = "ExecutionError" /\ r.err = "Ok"
                    /\ ~IsSome(failedRequest)
                 THEN Some([query_id |-> query_id,
                            request |-> Unwrap(xcmRequests[query_id])])
                 ELSE failedRequest
            /\ UNCHANGED <<relayBlock, matched>>

ClaimFor ==
    \E who \in UnlockingAccounts : Extrinsic(claim_for(Cur(0), who))

ForceSetEraStartBlock ==
    \E block_number \in {0, relayBlock} :
        Extrinsic(force_set_era_start_block(Cur(0), block_number))

ForceSetCurrentEra ==
    \E era \in {0, currentEra + 1} :
        Extrinsic(force_set_current_era(Cur(0), era))

ForceAdvanceEra ==
    \E era_offset \in 0..1 :
        Extrinsic(force_advance_era(Cur(0), era_offset))

ForceMatching ==
    \E xcm_left \in 0..MaxQueryId :
        Extrinsic(force_matching(Cur(xcm_left)))

\* the ledger the relay chain holds for a derivative whose local ledger is l:
\* l plus staking rewards
RelayLedgers(l) ==
    {[l EXCEPT !.total = @ + r, !.active = @ + r] : r \in 1..MaxReward}

\* what the update origin may force: a relay ledger, or any other value
ForcedLedgers(l) ==
    RelayLedgers(l) \cup {[l EXCEPT !.total = @ + r] : r \in 1..MaxReward}

RewardRoom(l) == l.total < StakingLedgerCap + MaxReward

ForceSetStakingLedger ==
    \E index \in Indices :
        /\ IsSome(stakingLedgers[index])
        /\ RewardRoom(Unwrap(stakingLedgers[index]))
        /\ \E staking_ledger \in ForcedLedgers(Unwrap(stakingLedgers[index])) :
               Extrinsic(force_set_staking_ledger(Cur(0), index, staking_ledger))

SetCurrentEra ==
    \E era \in {currentEra, currentEra + 1}, proof_ok \in BOOLEAN :
        Extrinsic(set_current_era(Cur(0), era, proof_ok))

SetStakingLedger ==
    \E index \in Indices, proof_ok \in BOOLEAN :
        /\ IsSome(stakingLedgers[index])
        /\ RewardRoom(Unwrap(stakingLedgers[index]))
        /\ \E staking_ledger \in RelayLedgers(Unwrap(stakingLedgers[index])) :
               Extrinsic(set_staking_ledger(Cur(0), index, staking_ledger, proof_ok))

ReduceReserves ==
    \E reduce_amount \in 1..1 :
        Extrinsic(reduce_reserves(Cur(0), reduce_amount))

CancelUnstake ==
    \E who \in Users, amount \in UnstakeAmounts :
        Extrinsic(cancel_unstake(Cur(0), who, amount))

FastMatchUnstake ==
    \E who \in Users :
        Extrinsic(fast_match_unstake(Cur(0), <<who>>))

\* a new block: the relay chain has moved on; the hook never fails the block,
\* with_transaction rolls its writes back on an error
OnInitializeUpTo(max_block) ==
    \E step \in 1..EraLength, xcm_left \in 0..MaxQueryId :
        /\ relayBlock + step <= max_block
        /\ relayBlock' = relayBlock + step
        /\ Transact(do_on_initialize([Cur(xcm_left) EXCEPT !.RelayBlock = relayBlock + step]))
        /\ UNCHANGED <<applied, failedRequest, matched>>

OnInitialize == OnInitializeUpTo(MaxRelayBlock)

OnFinalize ==
    Extrinsic(on_finalize(Cur(0)))

Next ==
    \/ Stake
    \/ Unstake
    \/ Bond
    \/ BondExtra
    \/ Unbond
    \/ Rebond
    \/ WithdrawUnbonded
    \/ Nominate
    \/ NotificationReceived
    \/ ClaimFor
    \/ ForceSetEraStartBlock
    \/ ForceSetCurrentEra
    \/ ForceAdvanceEra
    \/ ForceMatching
    \/ ForceSetStakingLedger
    \/ SetCurrentEra
    \/ SetStakingLedger
    \/ ReduceReserves
    \/ CancelUnstake
    \/ FastMatchUnstake
    \/ OnInitialize
    \/ OnFinalize

Spec == Init /\ [][Next]_vars

\* The remote-request life cycle: stake and unstake fill the pool, every kind
\* of request is submitted, the confirmations are delivered, the era moves on.
NextRemote ==
    \/ Stake
    \/ UnstakeVia("RelayChain")
    \/ Bond
    \/ BondExtra
    \/ Unbond
    \/ Rebond
    \/ WithdrawUnbonded
    \/ Nominate
    \/ NotificationReceived
    \/ ForceAdvanceEra

SpecRemote == Init /\ [][NextRemote]_vars

\* The matching pool under stake, unstake, matching (by the block hook and
\* forced), the bonding submissions, their confirmations and fast unstake.
NextPool ==
    \/ Stake
    \/ UnstakeVia("RelayChain")
    \/ UnstakeVia("MatchingPool")
    \/ Bond
    \/ BondExtra
    \/ Unbond
    \/ Rebond
    \/ NotificationReceived
    \/ ForceMatching
    \/ FastMatchUnstake
    \/ OnInitialize

SpecPool == Init /\ [][NextPool]_vars

\* The staking ledgers under bonding, the confirmations and the ledger
\* overwrites; on_finalize ends the block, the era moves on.
NextLedger ==
    \/ Stake
    \/ Bond
    \/ BondExtra
    \/ NotificationReceived
    \/ ForceSetStakingLedger
    \/ SetStakingLedger
    \/ OnFinalize
    \/ ForceAdvanceEra

SpecLedger == Init /\ [][NextLedger]_vars

\* The era advance alone, from any ledgers, pool totals, liquid supply and
\* exchange rate within the bounds.
RatePools ==
    {[total_stake_amount |-> [total |-> t, locked |-> 0],
      total_unstake_amount |-> [total |-> u, locked |-> 0]] :
        t \in 0..MaxRateInput, u \in 0..MaxRateInput}

RateLedgers == {None} \cup {Some(new_ledger(a)) : a \in 0..MaxRateInput}

InitRate ==
    /\ matchingPool \in RatePools
    /\ stakingLedgers \in [Indices -> RateLedgers]
    /\ isUpdated = [i \in Indices |-> FALSE]
    /\ xcmRequests = [q \in QueryIds |-> None]
    /\ nextQueryId = 0
    /\ currentEra = 0
    /\ eraStartBlock = 0
    /\ isMatched \in BOOLEAN
    /\ exchangeRate \in 1..MaxRate
    /\ totalReserves = 0
    /\ unlockings = [a \in UnlockingAccounts |-> None]
    /\ fastUnstakeRequests = [a \in Users |-> None]
    /\ stakingBalance = [a \in StakingAccounts |-> 0]
    /\ \E n \in 0..MaxIssuance :
           liquidBalance = [a \in LiquidAccounts |->
                               IF a = ProtocolFeeReceiver THEN 0 ELSE n]
    /\ loansBorrow = 0
    /\ relayBlock \in 0..MaxRelayBlock
    /\ applied = [q \in QueryIds |-> 0]
    /\ failedRequest = None
    /\ matched = None

NextRate ==
    \/ ForceAdvanceEra
    \/ SetCurrentEra

SpecRate == InitRate /\ [][NextRate]_vars

\* the era machinery next to the user flow: every writer of CurrentEra,
\* EraStartBlock and IsMatched, with stake, unstake, claims and matching rounds
NextEra ==
    \/ Stake
    \/ UnstakeVia("RelayChain")
    \/ ClaimFor
    \/ ForceMatching
    \/ NotificationReceived
    \/ ForceSetEraStartBlock
    \/ ForceSetCurrentEra
    \/ ForceAdvanceEra
    \/ SetCurrentEra
    \/ OnInitialize

SpecEra == Init /\ [][NextEra]_vars

\* every operation that moves value, with staking rewards reported by the
\* relay chain and eras advanced by the update origin
NextFrame ==
    \/ Stake
    \/ UnstakeVia("RelayChain")
    \/ UnstakeVia("MatchingPool")
    \/ ForceMatching
    \/ NotificationReceived
    \/ ClaimFor
    \/ FastMatchUnstake
    \/ SetStakingLedger
    \/ ForceAdvanceEra

SpecFrame == Init /\ [][NextFrame]_vars

\* the pallet driven by its users, the relay chain and the block hook alone:
\* no call of the update origin
NextTick ==
    \/ Stake
    \/ UnstakeVia("RelayChain")
    \/ NotificationReceived
    \/ OnInitializeUpTo(MaxTickBlock)

SpecTick == Init /\ [][NextTick]_vars

\* unbonding from a ledger that exists: the state after a stake, three
\* unstakes and the confirmed Bond of the first derivative account at the cap,
\* with the query ids of the XCM pallet counted from there
InitUnbond ==
    /\ matchingPool = [total_stake_amount |-> [total |-> 1, locked |-> 0],
                       total_unstake_amount |-> [total |-> 3, locked |-> 0]]
    /\ stakingLedgers = [i \in Indices |->
                            IF i = DerivativeIndexList[1]
                            THEN Some(new_ledger(StakingLedgerCap)) ELSE None]
    /\ isUpdated = [i \in Indices |-> FALSE]
    /\ xcmRequests = [q \in QueryIds |-> None]
    /\ nextQueryId = 0
    /\ currentEra = 0
    /\ eraStartBlock = 0
    /\ isMatched = FALSE
    /\ exchangeRate = GenesisExchangeRate
    /\ totalReserves = 1
    /\ unlockings = [a \in UnlockingAccounts |->
                        IF a = LoansAccount THEN None
                        ELSE Some(<<[value |-> 3, era |-> BondingDuration + 1]>>)]
    /\ fastUnstakeRequests = [a \in Users |-> None]
    /\ stakingBalance = [a \in StakingAccounts |->
                            IF a = PalletAccount THEN 2 ELSE 0]
    /\ liquidBalance = [a \in LiquidAccounts |-> 0]
    /\ loansBorrow = 0
    /\ relayBlock = 0
    /\ applied = [q \in QueryIds |-> 0]
    /\ failedRequest = None
    /\ matched = None

NextUnbond ==
    \/ Unbond
    \/ WithdrawUnbonded
    \/ NotificationReceived
    \/ ForceAdvanceEra

SpecUnbond == InitUnbond /\ [][NextUnbond]_vars

\* unbonding from a ledger one chunk short of MAX_UNLOCKING_CHUNKS: for
\* MAX_UNLOCKING_CHUNKS - 1 eras a reward of 1 was reported and 1 was unbonded
\* in every era, the last of them in the era before the current one, no
\* withdrawal has been confirmed, and one more reward stands in the active
\* balance; the pool and the depositor are as in InitUnbond
OldChunks == [k \in 1..(MAX_UNLOCKING_CHUNKS - 1) |-> [value |-> 1, era |-> k]]

InitChunks ==
    /\ matchingPool = [total_stake_amount |-> [total |-> 1, locked |-> 0],
                       total_unstake_amount |-> [total |-> 3, locked |-> 0]]
    /\ stakingLedgers = [i \in Indices |->
                            IF i = DerivativeIndexList[1]
                            THEN Some([total |-> StakingLedgerCap + MaxReward
                                                     + Len(OldChunks),
                                       active |-> StakingLedgerCap + MaxReward,
                                       unlocking |-> OldChunks])
                            ELSE None]
    /\ isUpdated = [i \in Indices |-> FALSE]
    /\ xcmRequests = [q \in QueryIds |-> None]
    /\ nextQueryId = 0
    /\ currentEra = MAX_UNLOCKING_CHUNKS - 1
    /\ eraStartBlock = (MAX_UNLOCKING_CHUNKS - 1) * EraLength
    /\ isMatched = FALSE
    /\ exchangeRate = GenesisExchangeRate
    /\ totalReserves = 1
    /\ unlockings = [a \in UnlockingAccounts |->
                        IF a = LoansAccount THEN None
                        ELSE Some(<<[value |-> 3,
                                     era |-> MAX_UNLOCKING_CHUNKS + BondingDuration]>>)]
    /\ fastUnstakeRequests = [a \in Users |-> None]
    /\ stakingBalance = [a \in StakingAccounts |->
                            IF a = PalletAccount THEN 2 ELSE 0]
    /\ liquidBalance = [a \in LiquidAccounts |-> 0]
    /\ loansBorrow = 0
    /\ relayBlock = (MAX_UNLOCKING_CHUNKS - 1) * EraLength
    /\ applied = [q \in QueryIds |-> 0]
    /\ failedRequest = None
    /\ matched = None

SpecChunks == InitChunks /\ [][NextUnbond]_vars

\* a depositor one chunk short of MAX_UNLOCKING_CHUNKS: in each of the
\* MAX_UNLOCKING_CHUNKS - 1 eras before the current one the depositor
\* unstaked 1, the round of the era unbonded it from the first derivative
\* account, and every unbond has been confirmed and withdrawn since, so that
\* what the chunks are worth stands in the pallet account next to the
\* reserves and the stake still waiting; nothing was claimed, the ledger
\* holds the cap, and the depositor holds 4 of the derivative
QueuedChunks ==
    [k \in 1..(MAX_UNLOCKING_CHUNKS - 1) |-> [value |-> 1, era |-> k + BondingDuration]]

InitQueue ==
    /\ matchingPool = [total_stake_amount |-> [total |-> 2, locked |-> 0],
                       total_unstake_amount |-> [total |-> 0, locked |-> 0]]
    /\ stakingLedgers = [i \in Indices |->
                            IF i = DerivativeIndexList[1]
                            THEN Some(new_ledger(StakingLedgerCap)) ELSE None]
    /\ isUpdated = [i \in Indices |-> FALSE]
    /\ xcmRequests = [q \in QueryIds |-> None]
    /\ nextQueryId = 0
    /\ currentEra = MAX_UNLOCKING_CHUNKS - 1
    /\ eraStartBlock = (MAX_UNLOCKING_CHUNKS - 1) * EraLength
    /\ isMatched = FALSE
    /\ exchangeRate = GenesisExchangeRate
    /\ totalReserves = 1
    /\ unlockings = [a \in UnlockingAccounts |->
                        IF a = LoansAccount THEN None ELSE Some(QueuedChunks)]
    /\ fastUnstakeRequests = [a \in Users |-> None]
    /\ stakingBalance = [a \in StakingAccounts |->
                            IF a = PalletAccount THEN 1 + 2 + Len(QueuedChunks) ELSE 0]
    /\ liquidBalance = [a \in LiquidAccounts |->
                           IF a = ProtocolFeeReceiver THEN 0 ELSE 4]
    /\ loansBorrow = 0
    /\ relayBlock = (MAX_UNLOCKING_CHUNKS - 1) * EraLength
    /\ applied = [q \in QueryIds |-> 0]
    /\ failedRequest = None
    /\ matched = None

NextQueue ==
    \/ UnstakeVia("RelayChain")
    \/ ClaimFor
    \/ ForceAdvanceEra

SpecQueue == InitQueue /\ [][NextQueue]_vars

\* the fast-unstake queue of a depositor: requests and cancellations next to
\* the stakes, regular unstakes and settlements that move the depositor's
\* derivative balance, with eras passing
NextFast ==
    \/ Stake
    \/ UnstakeVia("RelayChain")
    \/ UnstakeVia("MatchingPool")
    \/ CancelUnstake
    \/ FastMatchUnstake
    \/ ForceAdvanceEra

SpecFast == Init /\ [][NextFast]_vars

\* the two conversions alone, at any rate up to 3: a depositor hands an amount
\* of the staking asset to the pallet for derivative at the current rate, and
\* hands the derivative back for the staking asset at the same rate
ConvertRates == 1..(3 * RateDiv)

InitConvert ==
    /\ matchingPool = EmptyPool
    /\ stakingLedgers = [i \in Indices |-> None]
    /\ isUpdated = [i \in Indices |-> FALSE]
    /\ xcmRequests = [q \in QueryIds |-> None]
    /\ nextQueryId = 0
    /\ currentEra = 0
    /\ eraStartBlock = 0
    /\ isMatched = FALSE
    /\ exchangeRate \in ConvertRates
    /\ totalReserves = 0
    /\ unlockings = [a \in UnlockingAccounts |-> None]
    /\ fastUnstakeRequests = [a \in Users |-> None]
    /\ \E x \in 0..MaxAmount :
           stakingBalance = [a \in StakingAccounts |->
                                IF a = PalletAccount THEN 0 ELSE x]
    /\ liquidBalance = [a \in LiquidAccounts |-> 0]
    /\ loansBorrow = 0
    /\ relayBlock = 0
    /\ applied = [q \in QueryIds |-> 0]
    /\ failedRequest = None
    /\ matched = None

ToDerivative ==
    \E who \in Users :
        LET amount == stakingBalance[who]
            liquid_amount == staking_to_liquid(Cur(0), amount)
        IN  /\ amount > 0
            /\ liquidBalance[who] = 0
            /\ IsSome(liquid_amount)
            /\ stakingBalance' = [stakingBalance EXCEPT ![who] = 0,
                                                        ![PalletAccount] = amount]
            /\ liquidBalance' = [liquidBalance EXCEPT ![who] = Unwrap(liquid_amount)]
            /\ UNCHANGED <<matchingPool, stakingLedgers, isUpdated, xcmRequests,
                           nextQueryId, currentEra, eraStartBlock, isMatched,
                           exchangeRate, totalReserves, unlockings,
                           fastUnstakeRequests, loansBorrow, relayBlock, applied,
                           failedRequest, matched>>

ToBase ==
    \E who \in Users :
        LET amount == liquid_to_staking(Cur(0), liquidBalance[who])
        IN  /\ liquidBalance[who] > 0
            /\ IsSome(amount)
            /\ stakingBalance' = [stakingBalance EXCEPT ![who] = Unwrap(amount)]
            /\ liquidBalance' = [liquidBalance EXCEPT ![who] = 0]
            /\ UNCHANGED <<matchingPool, stakingLedgers, isUpdated, xcmRequests,
                           nextQueryId, currentEra, eraStartBlock, isMatched,
                           exchangeRate, totalReserves, unlockings,
                           fastUnstakeRequests, loansBorrow, relayBlock, applied,
                           failedRequest, matched>>

NextConvert ==
    \/ ToDerivative
    \/ ToBase

SpecConvert == InitConvert /\ [][NextConvert]_vars

\* stakes against the market cap: the ledgers hold what depositors outside
\* Users had bonded before, anything from nothing to the cap of each
\* derivative account
CapLedgers == {None} \cup {Some(new_ledger(a)) : a \in 1..StakingLedgerCap}

InitCap ==
    /\ matchingPool = EmptyPool
    /\ stakingLedgers \in [Indices -> CapLedgers]
    /\ isUpdated = [i \in Indices |-> FALSE]
    /\ xcmRequests = [q \in QueryIds |-> None]
    /\ nextQueryId = 0
    /\ currentEra = 0
    /\ eraStartBlock = 0
    /\ isMatched = FALSE
    /\ exchangeRate = GenesisExchangeRate
    /\ totalReserves = 0
    /\ unlockings = [a \in UnlockingAccounts |-> None]
    /\ fastUnstakeRequests = [a \in Users |-> None]
    /\ stakingBalance = [a \in StakingAccounts |->
                            IF a = PalletAccount THEN 0 ELSE InitialBalance]
    /\ liquidBalance = [a \in LiquidAccounts |-> 0]
    /\ loansBorrow = 0
    /\ relayBlock = 0
    /\ applied = [q \in QueryIds |-> 0]
    /\ failedRequest = None
    /\ matched = None

NextCap ==
    \/ Stake
    \/ ForceMatching
    \/ NotificationReceived
    \/ SetStakingLedger

SpecCap == InitCap /\ [][NextCap]_vars

\* MatchingLedger alone: the pool after any calls of add_stake_amount and
\* add_unstake_amount, and matching applied to it for an unbonding amount.
RecordStake ==
    \E amount \in RecordAmounts :
        LET r == add_stake_amount(matchingPool, amount)
        IN  /\ r.err = "Ok"
            /\ r.v.total_stake_amount.total <= MaxPoolTotal
            /\ matchingPool' = r.v
            /\ UNCHANGED <<stakingLedgers, isUpdated, xcmRequests, nextQueryId,
                           currentEra, eraStartBlock, isMatched, exchangeRate,
                           totalReserves, unlockings, fastUnstakeRequests,
                           stakingBalance, liquidBalance, loansBorrow, relayBlock,
                           applied, failedRequest, matched>>

RecordUnstake ==
    \E amount \in RecordAmounts :
        LET r == add_unstake_amount(matchingPool, amount)
        IN  /\ r.err = "Ok"
            /\ r.v.total_unstake_amount.total <= MaxPoolTotal
            /\ matchingPool' = r.v
            /\ UNCHANGED <<stakingLedgers, isUpdated, xcmRequests, nextQueryId,
                           currentEra, eraStartBlock, isMatched, exchangeRate,
                           totalReserves, unlockings, fastUnstakeRequests,
                           stakingBalance, liquidBalance, loansBorrow, relayBlock,
                           applied, failedRequest, matched>>

Match ==
    \E unbonding_amount \in 0..MaxUnbonding :
        /\ matched' = Some(matching(matchingPool, unbonding_amount))
        /\ UNCHANGED storage
        /\ UNCHANGED <<relayBlock, applied, failedRequest>>

NextMatching ==
    \/ RecordStake
    \/ RecordUnstake
    \/ Match

SpecMatching == Init /\ [][NextMatching]_vars

(* ------------------------------------------------------------------ *)
(* Properties                                                           *)
(* ------------------------------------------------------------------ *)
StakeAmount == matchingPool.total_stake_amount
UnstakeAmount == matchingPool.total_unstake_amount

\* C1: in every state reached by stake, unstake, matching (by the block hook
\* or forced), the bond, bond-extra, unbond and rebond submissions, the
\* confirmation deliveries and fast unstake, both accumulators of the matching
\* pool have locked <= total.
C1_LockedWithinTotal ==
    /\ StakeAmount.locked <= StakeAmount.total
    /\ UnstakeAmount.locked <= UnstakeAmount.total

\* the whole recorded stake is locked by submissions, an unbond is in flight
\* and a fast unstake is waiting for free stake that is not there
C1_Witness ==
    /\ StakeAmount.locked > 0
    /\ StakeAmount.locked = StakeAmount.total
    /\ UnstakeAmount.locked > 0
    /\ UnstakeAmount.locked = UnstakeAmount.total
    /\ \E who \in Users : IsSome(fastUnstakeRequests[who])
    /\ isMatched

LedgerBalanced(l) == l.total = l.active + SumValues(l.unlocking)

\* C2: every stored staking ledger has total = active + the sum of the values
\* of its unlocking chunks, after any confirmed requests and any ledger
\* overwrites by force_set_staking_ledger and set_staking_ledger.
C2_LedgerTotals ==
    \A i \in Indices :
        IsSome(stakingLedgers[i]) => LedgerBalanced(Unwrap(stakingLedgers[i]))

\* C3: for every pool reached by add_stake_amount and add_unstake_amount and
\* every unbonding amount, the triple matching returns has no negative
\* component and does not have bond and unbond both nonzero.
C3_MatchingTriple ==
    IsSome(matched) =>
        LET m == Unwrap(matched)
        IN  /\ m.bond >= 0
            /\ m.rebond >= 0
            /\ m.unbond >= 0
            /\ ~(m.bond # 0 /\ m.unbond # 0)

\* the amounts of the requests of the given kinds with query id q or later
RECURSIVE SubmittedFrom(_, _, _)
SubmittedFrom(s, q, kinds) ==
    IF q >= s.NextQueryId THEN 0
    ELSE LET req == Unwrap(s.XcmRequests[q])
         IN  (IF req.kind \in kinds THEN req.amount ELSE 0)
             + SubmittedFrom(s, q + 1, kinds)

FreeStake == free(StakeAmount).v
FreeUnstake == free(UnstakeAmount).v
Imbalance ==
    IF FreeStake >= FreeUnstake THEN FreeStake - FreeUnstake
    ELSE FreeUnstake - FreeStake

\* what a matching round started in the current state sends to be bonded or
\* unbonded
RoundCrossing(r) == SubmittedFrom(r.st, nextQueryId, {"Bond", "BondExtra", "Unbond"})

\* C4: a matching round submits as Bond and BondExtra plus as Unbond no more
\* than the difference of the free stake and the free unstake it starts from.
C4_OnlyImbalanceCrosses ==
    \A xcm_left \in 0..MaxQueryId :
        LET r == do_matching(Cur(xcm_left))
        IN  r.err = "Ok" => RoundCrossing(r) <= Imbalance

\* a round that nets: free stake meets free unstake and the rest is bonded
C4_Witness ==
    LET r == do_matching(Cur(MaxQueryId))
    IN  /\ FreeStake > 0
        /\ FreeUnstake > 0
        /\ r.err = "Ok"
        /\ RoundCrossing(r) > 0
        /\ RoundCrossing(r) = Imbalance

Pending(q) == IsSome(xcmRequests[q])

\* C5: the effect of a request is applied at most once: once a successful
\* confirmation has been processed the request is gone, and whatever is
\* delivered for its id later changes no ledger and no pool counter.
C5_AppliedAtMostOnce ==
    \A q \in QueryIds :
        /\ applied[q] <= 1
        /\ applied[q] = 1 =>
              /\ ~Pending(q)
              /\ \A response \in Responses :
                     LET r == notification_received(Cur(0), q, response)
                     IN  /\ r.st.StakingLedgers = stakingLedgers
                         /\ r.st.MatchingPool = matchingPool

\* one request has been applied while another one is still in flight
C5_Witness ==
    \E q1, q2 \in QueryIds :
        /\ applied[q1] = 1
        /\ ~Pending(q1)
        /\ applied[q2] = 0
        /\ Pending(q2)

FailedId == Unwrap(failedRequest).query_id
Failed == Unwrap(failedRequest).request

\* C6 as stated: once a failure confirmation has been processed for a
\* pending id, no request is pending under that id.
C6_FailureRemoves ==
    IsSome(failedRequest) => ~Pending(FailedId)

\* C6: a failure confirmation leaves the request pending and unchanged; it is
\* removed when a success confirmation for it has been processed, not before.
C6_FailureKeepsRequest ==
    IsSome(failedRequest) =>
        IF applied[FailedId] = 0 THEN xcmRequests[FailedId] = Some(Failed)
        ELSE ~Pending(FailedId)

\* a failed request is still pending while a later request has been applied
C6_Witness ==
    /\ IsSome(failedRequest)
    /\ applied[FailedId] = 0
    /\ xcmRequests[FailedId] = Some(Failed)
    /\ \E q \in QueryIds : q > FailedId /\ applied[q] = 1

\* C7: a failure confirmation applies nothing: the ledgers, both pool
\* accumulators, the updated flags and all balances stay as they are.
C7_FailureAppliesNothing ==
    \A q \in QueryIds :
        Pending(q) =>
            LET r == notification_received(Cur(0), q, "ExecutionError")
            IN  /\ r.err = "Ok"
                /\ r.st.StakingLedgers = stakingLedgers
                /\ r.st.MatchingPool = matchingPool
                /\ r.st.IsUpdated = isUpdated
                /\ r.st.StakingBalance = stakingBalance
                /\ r.st.LiquidBalance = liquidBalance

\* a failure has been delivered for an unbond whose ledger exists and whose
\* amount is locked
C7_Witness ==
    /\ IsSome(failedRequest)
    /\ Pending(FailedId)
    /\ Failed.kind = "Unbond"
    /\ IsSome(stakingLedgers[Failed.index])
    /\ UnstakeAmount.locked >= Failed.amount

\* what the accumulator of the failed request holds locked
FailedLocked ==
    IF locks_stake(Failed) THEN StakeAmount.locked
    ELSE IF locks_unstake(Failed) THEN UnstakeAmount.locked
    ELSE 0

FailedAmount ==
    IF locks_stake(Failed) \/ locks_unstake(Failed) THEN Failed.amount ELSE 0

\* C8 as stated: once a request has received a failure confirmation, its
\* accumulator holds at least the amount of the request locked ever after.
C8_LockNeverReleased ==
    IsSome(failedRequest) => FailedLocked >= FailedAmount

\* C8: after a failure confirmation the accumulator holds at least the amount
\* of the request locked for as long as no success confirmation for the
\* request has been processed.
C8_LockHeldWhilePending ==
    (IsSome(failedRequest) /\ applied[FailedId] = 0) => FailedLocked >= FailedAmount

\* a failed request holds the only lock of its accumulator after a later
\* request has been applied
C8_Witness ==
    /\ IsSome(failedRequest)
    /\ applied[FailedId] = 0
    /\ FailedAmount > 0
    /\ FailedLocked = FailedAmount
    /\ \E q \in QueryIds : q # FailedId /\ applied[q] = 1

\* C9: a confirmation for an id without a pending request succeeds and
\* changes nothing, whatever its outcome.
C9_UnknownIdIsNoOp ==
    \A q \in QueryIds, response \in Responses :
        ~Pending(q) => notification_received(Cur(0), q, response) = Ok(Cur(0))

\* an id whose request has been processed, an id not handed out yet, and
\* locks and a ledger that a wrong delivery could touch
C9_Witness ==
    /\ \E q \in QueryIds : q < nextQueryId /\ ~Pending(q)
    /\ \E q \in QueryIds : q >= nextQueryId
    /\ StakeAmount.locked > 0
    /\ \E i \in Indices : IsSome(stakingLedgers[i])

Deliver(s, q) == notification_received(s, q, "ExecutionOk")
DeliverBoth(q1, q2) == Then(Deliver(Cur(0), q1), LAMBDA s1 : Deliver(s1, q2))

\* C10: two pending requests confirmed successfully leave the same matching
\* pool in either order of their confirmations.
C10_ConfirmationsCommute ==
    \A q1, q2 \in QueryIds :
        (q1 # q2 /\ Pending(q1) /\ Pending(q2)) =>
            LET a == DeliverBoth(q1, q2)
                b == DeliverBoth(q2, q1)
            IN  (a.err = "Ok" /\ b.err = "Ok") => a.st.MatchingPool = b.st.MatchingPool

\* an unbond and a rebond of one delegate are pending: each order succeeds,
\* the pool changes, and the ledger that results depends on the order
C10_Witness ==
    \E q1, q2 \in QueryIds :
        /\ q1 # q2 /\ Pending(q1) /\ Pending(q2)
        /\ LET a == DeliverBoth(q1, q2)
               b == DeliverBoth(q2, q1)
           IN  /\ a.err = "Ok" /\ b.err = "Ok"
               /\ a.st.MatchingPool # matchingPool
               /\ a.st.StakingLedgers # b.st.StakingLedgers

Issuance == total_issuance_liquid(Cur(0))

\* the rate do_update_exchange_rate computes from the current figures
ComputedRate ==
    FromRational(get_total_active_bonded(Cur(0)) + StakeAmount.total
                 - UnstakeAmount.total, Issuance)

\* C11: the exchange rate after do_update_exchange_rate is never less than the
\* rate before it, whatever the ledgers, the pool and the liquid supply are,
\* and nothing changes when the liquid supply is zero.
C11_RateNeverFalls ==
    LET r == do_update_exchange_rate(Cur(0))
    IN  /\ r.st.ExchangeRate >= exchangeRate
        /\ Issuance = 0 => r = Ok(Cur(0))

\* an era advance has run while the figures give a rate below the stored one
C11_Witness ==
    /\ currentEra > 0
    /\ Issuance > 0
    /\ get_total_active_bonded(Cur(0)) + StakeAmount.total >= UnstakeAmount.total
    /\ ComputedRate < exchangeRate

\* C12: an era advance by offset zero changes nothing: not the era, not the
\* exchange rate, not the era start block, not the matched flag.
C12_AdvanceZeroNoOp ==
    do_advance_era(Cur(0), 0) = Ok(Cur(0))

\* a state every part of which an advance by a nonzero offset would change
C12_Witness ==
    /\ isMatched
    /\ eraStartBlock # relayBlock
    /\ Issuance > 0
    /\ get_total_active_bonded(Cur(0)) + StakeAmount.total >= UnstakeAmount.total
    /\ ComputedRate > exchangeRate
    /\ do_advance_era(Cur(0), 1).st.ExchangeRate > exchangeRate

\* what a step through do_advance_era with a nonzero offset leaves behind
AdvanceEffect ==
    /\ currentEra' > currentEra
    /\ eraStartBlock' = relayBlock'
    /\ ~isMatched'
    /\ exchangeRate' >= exchangeRate

\* what force_set_current_era leaves behind: the era and a cleared flag
ForceSetEffect ==
    /\ ~isMatched'
    /\ UNCHANGED <<matchingPool, stakingLedgers, isUpdated, xcmRequests, nextQueryId,
                   eraStartBlock, exchangeRate, totalReserves, unlockings,
                   fastUnstakeRequests, stakingBalance, liquidBalance, loansBorrow,
                   relayBlock>>

\* C13 as stated: the era index changes only in a step of the era-advance
\* transition (era start block set to the relay block, rate recomputed, flag
\* cleared, era increased)
C13_OnlyAdvanceWritesEra ==
    [][currentEra' # currentEra => AdvanceEffect]_vars

\* C13 amended: the era index changes only in an era-advance step or in a
\* force_set_current_era step, which writes the era and clears the matched flag
\* and touches nothing else
C13_EraWriters ==
    [][currentEra' # currentEra => (AdvanceEffect \/ ForceSetEffect)]_vars

\* the era has been written, and since then users staked and unstaked
C13_Witness ==
    /\ currentEra > 0
    /\ relayBlock > eraStartBlock
    /\ FreeUnstake > 0
    /\ IsSome(unlockings["alice"])

\* C14: the exchange rate changes only in a step that advances the era by a
\* nonzero offset; stake, unstake, matching, confirmations, claims, fast unstake
\* settlement and ledger overwrites leave it as it is
C14_RateWrittenByAdvance ==
    [][exchangeRate' # exchangeRate => AdvanceEffect]_vars

\* an era advance has raised the rate above its genesis value, and a depositor
\* has unstaked at the new rate
C14_Witness ==
    /\ exchangeRate > GenesisExchangeRate
    /\ currentEra > 0
    /\ IsSome(unlockings["alice"])
    /\ \E i \in Indices : IsSome(stakingLedgers[i]) /\ isUpdated[i]

\* a step in which a matching round committed and left a trace: it submitted
\* requests, or it raised the matched flag
RoundCommitted ==
    \/ nextQueryId' # nextQueryId
    \/ ~isMatched /\ isMatched'

\* C15: with the block hook as the only source of matching rounds and era
\* advances, no round commits while the matched flag is set, a round that
\* commits without an era advance leaves the flag set, and only an era advance
\* clears the flag: so at most one round commits between two era advances
C15_OneRoundPerEra ==
    [][/\ RoundCommitted => ~isMatched
       /\ (RoundCommitted /\ currentEra' = currentEra) => isMatched'
       /\ (isMatched /\ ~isMatched') => AdvanceEffect]_vars

\* after an era advance a round has committed in the new era, and stake that
\* arrived after it waits in the pool for the next era's round
C15_Witness ==
    /\ currentEra > 0
    /\ isMatched
    /\ relayBlock > eraStartBlock
    /\ nextQueryId > 0
    /\ FreeStake > 0

\* what the only depositor has paid in
Staked == InitialBalance - stakingBalance["alice"]

\* the stake of scenario A has been matched and every request of the round has
\* been confirmed once; nobody has unstaked
ScenarioADone ==
    /\ Staked > 0
    /\ ~IsSome(unlockings["alice"])
    /\ UnstakeAmount.total = 0
    /\ nextQueryId > 0
    /\ \A q \in QueryIds : ~IsSome(xcmRequests[q])
    /\ \A q \in QueryIds : applied[q] = (IF q < nextQueryId THEN 1 ELSE 0)

ScenarioASettled ==
    /\ \A i \in Indices :
           IsSome(stakingLedgers[i]) =>
               /\ Unwrap(stakingLedgers[i]).active <= StakingLedgerCap
               /\ Unwrap(stakingLedgers[i]).total = Unwrap(stakingLedgers[i]).active
    /\ StakeAmount = [total |-> 0, locked |-> 0]

ChunksOf(who) == IF IsSome(unlockings[who]) THEN Unwrap(unlockings[who]) ELSE <<>>

\* a step in which a depositor's unstake through the relay chain was accepted:
\* derivative burnt and the depositor's unlockings written
RegularUnstake(who) ==
    /\ liquidBalance'[who] < liquidBalance[who]
    /\ unlockings'[who] # unlockings[who]

\* C17: an accepted regular unstake of L at era e adds liquid_to_staking(L), at
\* the rate before the step, to the depositor's chunk of era
\* e + BondingDuration + 1: merged into the last chunk when that is its era,
\* appended as one new chunk otherwise, the earlier chunks untouched; the
\* unstake total of the pool grows by the same amount
C17_UnstakeAddsChunk ==
    [][\A who \in Users :
          RegularUnstake(who) =>
              LET L == liquidBalance[who] - liquidBalance'[who]
                  value == (exchangeRate * L) \div RateDiv
                  era == currentEra + BondingDuration + 1
                  old == ChunksOf(who)
              IN  /\ unlockings'[who] =
                         Some(IF old # <<>> /\ old[Len(old)].era = era
                              THEN [old EXCEPT ![Len(old)].value = @ + value]
                              ELSE Append(old, [value |-> value, era |-> era]))
                  /\ matchingPool' =
                         [matchingPool EXCEPT !.total_unstake_amount.total = @ + value]
      ]_vars

\* a depositor has unstaked twice in one era and once more in a later era:
\* one merged chunk and one appended chunk
C17_Witness ==
    /\ Len(ChunksOf("alice")) = 2
    /\ ChunksOf("alice")[1].value = 2
    /\ ChunksOf("alice")[2].era = ChunksOf("alice")[1].era + 1
    /\ UnstakeAmount.total = 3

\* the free stake of the pool in derivative terms, at the current rate
AvailableLiquid == (((RateDiv * RateDiv) \div exchangeRate) * FreeStake) \div RateDiv

\* fast_match_unstake for one depositor settles matched out of request and
\* leaves the rest queued
SettlesOutOf(who, request) ==
    LET r == fast_match_unstake(Cur(0), <<who>>)
        settled == Min(request, AvailableLiquid)
        fee == (MatchingPoolFastUnstakeFee * settled) \div RateDiv
    IN  r.err = "Ok" =>
            /\ r.st.FastUnstakeRequests[who] =
                   IF request - settled = 0 THEN None ELSE Some(request - settled)
            /\ r.st.LiquidBalance[who] = liquidBalance[who] - settled
            /\ r.st.LiquidBalance[ProtocolFeeReceiver] =
                   liquidBalance[ProtocolFeeReceiver] + fee

\* C18 as stated: with R the depositor's stored request and A the free stake in
\* derivative terms, settlement takes min(R, A) from the depositor, fee
\* included, and leaves R - min(R, A) stored, no entry when that is zero
C18_SettlesStoredRequest ==
    \A who \in Users :
        IsSome(fastUnstakeRequests[who]) =>
            SettlesOutOf(who, Unwrap(fastUnstakeRequests[who]))

\* C18 amended: the request that is settled is the stored request capped at the
\* derivative the depositor still holds
C18_SettlesCappedRequest ==
    \A who \in Users :
        IsSome(fastUnstakeRequests[who]) =>
            SettlesOutOf(who, Min(Unwrap(fastUnstakeRequests[who]), liquidBalance[who]))

\* a settlement has paid a depositor who never unstaked through the relay
\* chain, and a request the depositor's derivative covers is queued
C18_Witness ==
    /\ ~IsSome(unlockings["alice"])
    /\ Staked > 0
    /\ Staked \notin StakeAmounts
    /\ IsSome(fastUnstakeRequests["alice"])
    /\ Unwrap(fastUnstakeRequests["alice"]) > 0
    /\ liquidBalance["alice"] >= Unwrap(fastUnstakeRequests["alice"])

\* what a list of chunks holds for one era
RECURSIVE ValueAt(_, _)
ValueAt(chunks, era) ==
    IF chunks = <<>> THEN 0
    ELSE (IF chunks[1].era = era THEN chunks[1].value ELSE 0)
         + ValueAt(Tail(chunks), era)

ChunkEras == 0..(MaxEra + BondingDuration + 1)

\* the chunks of a list that are still locked at an era, in their order
StillLocked(chunks, era) == SelectSeq(chunks, LAMBDA c : c.era > era)

\* C19 as stated: the successful confirmation of an Unbond of a at era e takes
\* a from active, adds a to what the ledger unlocks at era e + BondingDuration
\* and keeps total; the successful confirmation of a WithdrawUnbonded at era w
\* removes the chunks of era <= w, so an Unbond chunk once w >= e +
\* BondingDuration, takes their sum from total and mints it to the pallet
\* account
C19_UnbondThenWithdraw ==
    [][\A q \in QueryIds :
          applied'[q] # applied[q] =>
              LET req == Unwrap(xcmRequests[q])
                  l == Unwrap(stakingLedgers[req.index])
                  l2 == Unwrap(stakingLedgers'[req.index])
                  matured == l.total - l2.total
              IN  /\ req.kind = "Unbond" =>
                         /\ l2.active = l.active - req.amount
                         /\ l2.total = l.total
                         /\ \A e \in ChunkEras :
                                ValueAt(l2.unlocking, e) =
                                    ValueAt(l.unlocking, e)
                                    + (IF e = currentEra + BondingDuration
                                       THEN req.amount ELSE 0)
                  /\ req.kind = "WithdrawUnbonded" =>
                         /\ l2.unlocking = StillLocked(l.unlocking, currentEra)
                         /\ l2.active = l.active
                         /\ matured = SumValues(l.unlocking) - SumValues(l2.unlocking)
                         /\ stakingBalance'[PalletAccount] =
                                stakingBalance[PalletAccount] + matured
      ]_vars

\* the amount x that went into the last conversion to derivative, and what the
\* round trip gave back for it
ConvertedIn == stakingBalance[PalletAccount]
ConvertedBack == stakingBalance["alice"]
RoundTripDone == ConvertedIn > 0 /\ liquidBalance["alice"] = 0

\* C20 as stated: at every rate, liquid_to_staking(staking_to_liquid(x)) is
\* within one unit of x
C20_RoundTripWithinOne ==
    RoundTripDone =>
        /\ ConvertedBack - ConvertedIn <= 1
        /\ ConvertedIn - ConvertedBack <= 1

\* C20 amended: the round trip never gives back more than x, and what it
\* loses is less than 1 + rate + rate * x / RateDiv: one unit for the last
\* rounding, the worth of one unit of derivative, and the truncation of the
\* reciprocal at the precision of the rate (inequality scaled by RateDiv^2)
C20_RoundTripNeverGains ==
    RoundTripDone =>
        /\ ConvertedBack <= ConvertedIn
        /\ (ConvertedIn - ConvertedBack) * RateDiv * RateDiv
               < RateDiv * RateDiv + exchangeRate * RateDiv
                 + exchangeRate * ConvertedIn

\* a round trip at a rate above one that gave back part of x, two units short
C20_Witness ==
    /\ RoundTripDone
    /\ exchangeRate > RateDiv
    /\ ConvertedBack > 0
    /\ ConvertedIn - ConvertedBack >= 2

\* what stake() records for the pool out of an amount paid in: the amount less
\* the XCM fees and less the reserves
NetOf(amount) == amount - XcmFees - (ReserveFactorNum * amount) \div ReserveFactorDen

\* the sum of total over the stored ledgers, and the global cap
BondedTotal ==
    LET T(i) == IF IsSome(stakingLedgers[i]) THEN Unwrap(stakingLedgers[i]).total ELSE 0
    IN  T(DerivativeIndexList[1]) + T(DerivativeIndexList[2])
MarketCap == StakingLedgerCap * Len(DerivativeIndexList)

\* a stake the depositor can pay and that is not below the minimum
Payable(who, amount) == amount >= MinStake /\ stakingBalance[who] >= amount

\* C21: a payable stake whose net amount plus the total bonded over all
\* ledgers exceeds cap * number of delegates is rejected with CapExceeded, and
\* one within that bound is accepted; no step moves a depositor's balance,
\* mints derivative, or changes the pool or the reserves for a stake beyond
\* the cap
C21_CapRejectsStake ==
    /\ [](\A who \in Users, amount \in 0..InitialBalance :
             Payable(who, amount) =>
                 stake(Cur(0), who, amount).err =
                     IF BondedTotal + NetOf(amount) > MarketCap
                     THEN "CapExceeded" ELSE "Ok")
    /\ [][\A who \in Users :
              (\/ stakingBalance'[who] < stakingBalance[who]
               \/ liquidBalance'[who] > liquidBalance[who]
               \/ matchingPool'.total_stake_amount.total
                      > matchingPool.total_stake_amount.total
               \/ totalReserves' # totalReserves) =>
                  BondedTotal + NetOf(stakingBalance[who] - stakingBalance'[who])
                      <= MarketCap]_vars

\* the depositor could stake within the cap until a reward reported for a
\* ledger raised the total bonded: now the same stake is beyond the cap
C21_Witness ==
    /\ Payable("alice", InitialBalance)
    /\ \E i \in Indices : isUpdated[i]
    /\ BondedTotal + NetOf(InitialBalance) > MarketCap
    /\ BondedTotal - MaxReward + NetOf(InitialBalance) <= MarketCap
    /\ stake(Cur(0), "alice", InitialBalance).err = "CapExceeded"

\* the storage after a step, as far as the request tracker goes
Tracker == [XcmRequests |-> xcmRequests, NextQueryId |-> nextQueryId]

\* a block in which the hook had a round to run, and after which neither the
\* matched flag is set nor the era has moved: the round failed
HookRoundFailed ==
    /\ relayBlock' # relayBlock
    /\ ~isMatched
    /\ ElectionSolutionStoredOffset + eraStartBlock <= relayBlock'
    /\ ~isMatched'
    /\ currentEra' = currentEra

\* C22: a matching round is all or nothing. In every step that is not a
\* confirmation the locks added to the two accumulators are the amounts of
\* the requests recorded in the step; requests are recorded only together
\* with the matched flag (or with the era advance that clears it again); and
\* a hook round that failed leaves the pool, the requests and the flag as they
\* were
C22_RoundAllOrNothing ==
    [][/\ applied' = applied =>
              /\ StakeAmount'.locked = StakeAmount.locked
                     + SubmittedFrom(Tracker', nextQueryId, {"Bond", "BondExtra", "Rebond"})
              /\ UnstakeAmount'.locked = UnstakeAmount.locked
                     + SubmittedFrom(Tracker', nextQueryId, {"Unbond"})
       /\ nextQueryId' # nextQueryId => (isMatched' \/ currentEra' # currentEra)
       /\ HookRoundFailed => UNCHANGED storage
      ]_vars

\* the hook has ticked, stake is waiting and no request was ever recorded: a
\* round that the transport stops at the second delegate would have locked
\* the first delegate's share and recorded its request
C22_Witness ==
    LET r == do_matching(Cur(1))
    IN  /\ relayBlock > 0
        /\ ~isMatched
        /\ nextQueryId = 0
        /\ r.err = "XcmError"
        /\ r.st.IsMatched
        /\ r.st.NextQueryId = 1
        /\ r.st.MatchingPool.total_stake_amount.locked > 0

\* a step that overwrote the ledger of a delegate: the ledger changed and no
\* confirmation was applied
Overwritten(i) ==
    /\ applied' = applied
    /\ IsSome(stakingLedgers[i])
    /\ stakingLedgers'[i] # stakingLedgers[i]

\* C23: while the updated flag of a delegate is set, every overwrite of its
\* ledger, forced or proven, is rejected with StakingLedgerLocked; while it is
\* clear a proven overwrite is accepted, and a forced one exactly when no
\* request is pending; an overwrite that succeeds finds the flag clear and
\* sets it, and a flag is cleared only by on_finalize, which clears them all
\* and touches nothing else: at most one overwrite per delegate between two
\* clears
C23_OneOverwritePerRound ==
    /\ [](\A i \in Indices :
             IsSome(stakingLedgers[i]) =>
                 \A l \in ForcedLedgers(Unwrap(stakingLedgers[i])), proof_ok \in BOOLEAN :
                     LET f == force_set_staking_ledger(Cur(0), i, l)
                         p == set_staking_ledger(Cur(0), i, l, proof_ok)
                     IN  IF isUpdated[i]
                         THEN f.err = "StakingLedgerLocked" /\ p.err = "StakingLedgerLocked"
                         ELSE /\ proof_ok => p.err = "Ok"
                              /\ f.err = "Ok" <=> \A q \in QueryIds : ~Pending(q))
    /\ [][\A i \in Indices :
              /\ Overwritten(i) => (~isUpdated[i] /\ isUpdated'[i])
              /\ (isUpdated[i] /\ ~isUpdated'[i]) =>
                     /\ \A j \in Indices : ~isUpdated'[j]
                     /\ UNCHANGED <<matchingPool, stakingLedgers, xcmRequests,
                                    nextQueryId, currentEra, exchangeRate,
                                    stakingBalance, liquidBalance>>]_vars

\* the ledgers were bonded with 2 and 1 and both hold the cap plus a reward
\* now: the second one has been overwritten, unlocked by on_finalize and
\* overwritten again, and both are locked
C23_Witness ==
    \A i \in Indices :
        /\ IsSome(stakingLedgers[i])
        /\ Unwrap(stakingLedgers[i]).total = StakingLedgerCap + MaxReward
        /\ isUpdated[i]

\* C24 as stated: an unbond of a from a ledger with active balance A is
\* rejected for the bond floor when 0 < A - a < MinNominatorBond, and is not
\* rejected for it when A - a is exactly zero or A - a >= MinNominatorBond
C24_UnbondFloor ==
    \A i \in Indices, a \in 1..StakingLedgerCap :
        IsSome(stakingLedgers[i]) =>
            LET A == Unwrap(stakingLedgers[i]).active
                r == do_unbond(Cur(1), i, a)
            IN  /\ (0 < A - a /\ A - a < MinNominatorBond) => r.err = "InsufficientBond"
                /\ (A - a = 0 \/ A - a >= MinNominatorBond) => r.err # "InsufficientBond"

\* the recomputation of the rate fails: derivative is in issue and the unstake
\* total exceeds the active bonded plus the stake total
RateUnderflows ==
    /\ Issuance > 0
    /\ get_total_active_bonded(Cur(0)) + StakeAmount.total < UnstakeAmount.total

\* C25: an era advance by a nonzero offset always completes: the era grows by
\* the offset, the era start block becomes the current relay block and the
\* matched flag is cleared, nothing but these and the exchange rate changes,
\* and the exchange rate stays as it is when its recomputation fails
C25_AdvanceCompletes ==
    \A era_offset \in 1..MaxEra :
        LET r == do_advance_era(Cur(0), era_offset)
        IN  /\ r.err = "Ok"
            /\ r.st = [Cur(0) EXCEPT !.CurrentEra = currentEra + era_offset,
                                     !.EraStartBlock = relayBlock,
                                     !.IsMatched = FALSE,
                                     !.ExchangeRate = r.st.ExchangeRate]
            /\ RateUnderflows => r.st.ExchangeRate = exchangeRate

\* an era advance has completed from a matched era although the rate could
\* not be recomputed
C25_Witness ==
    /\ RateUnderflows
    /\ currentEra > 0
    /\ eraStartBlock = relayBlock
    /\ relayBlock > 0
    /\ ~isMatched
    /\ do_update_exchange_rate(Cur(0)).err = "Overflow"

\* the results of the local transitions in the current state, for every
\* depositor, amount and provider
LocalResults ==
    {stake(Cur(0), who, amount) : who \in Users, amount \in 0..InitialBalance}
    \cup {unstake(Cur(0), who, amount, provider, loans_ok) :
              who \in Users, amount \in 0..InitialBalance,
              provider \in {"RelayChain", "Loans", "MatchingPool"}, loans_ok \in BOOLEAN}
    \cup {cancel_unstake(Cur(0), who, amount) : who \in Users, amount \in 0..InitialBalance}
    \cup {fast_match_unstake(Cur(0), <<who>>) : who \in Users}
    \cup {claim_for(Cur(0), who) : who \in UnlockingAccounts}

\* a step in which a successful confirmation for a request on delegate i was
\* processed
ConfirmedFor(i) ==
    \E q \in QueryIds :
        /\ applied'[q] = applied[q] + 1
        /\ IsSome(xcmRequests[q])
        /\ Unwrap(xcmRequests[q]).index = i

\* a step in which the stored ledger of delegate i was overwritten
OverwriteOf(i) ==
    /\ IsSome(stakingLedgers[i])
    /\ IsSome(stakingLedgers'[i])
    /\ ~isUpdated[i]
    /\ isUpdated'[i]
    /\ applied' = applied

\* C26: stake, unstake through any provider, cancel-unstake, fast-unstake
\* settlement and claim leave every staking ledger as it is, whether they
\* succeed or fail; a ledger is created or changed only in a step that
\* processes a successful confirmation for its delegate or overwrites it, and
\* no ledger is ever removed
C26_LocalLeavesLedgers ==
    /\ [](\A r \in LocalResults : r.st.StakingLedgers = stakingLedgers)
    /\ [][\A i \in Indices :
              stakingLedgers'[i] # stakingLedgers[i] =>
                  /\ ConfirmedFor(i) \/ OverwriteOf(i)
                  /\ IsSome(stakingLedgers'[i])]_vars

\* a ledger was created by a confirmation and raised above the cap by a
\* reported reward, while the depositor has unstaked, has been paid out by a
\* fast-unstake settlement and has a fast unstake queued
C26_Witness ==
    /\ \E i \in Indices :
           /\ IsSome(stakingLedgers[i])
           /\ Unwrap(stakingLedgers[i]).total > StakingLedgerCap
    /\ stakingBalance["alice"] > 0
    /\ IsSome(unlockings["alice"])
    /\ IsSome(fastUnstakeRequests["alice"])

\* C27 as stated: in every reachable state the unlocking sequence of every
\* staking ledger has at most MAX_UNLOCKING_CHUNKS entries, whatever Unbond
\* requests are outstanding on the delegate and however their confirmations
\* interleave with era advances
C27_UnlockingBounded ==
    \A i \in Indices :
        IsSome(stakingLedgers[i]) =>
            Len(Unwrap(stakingLedgers[i]).unlocking) <= MAX_UNLOCKING_CHUNKS

\* the stored fast-unstake request of a depositor, no entry being zero
RequestIn(s, who) ==
    IF IsSome(s.FastUnstakeRequests[who]) THEN Unwrap(s.FastUnstakeRequests[who]) ELSE 0
RequestOf(who) == RequestIn(Cur(0), who)

\* C28: with B the derivative balance of the depositor, a fast-unstake
\* request of a >= MinUnstake stores min(old + a, B), a cancellation of a
\* stores max(min(old, B) - a, 0), both succeed and change nothing else; and
\* after every step that writes the stored request it is at most the
\* derivative balance the depositor holds then
C28_RequestCappedAtBalance ==
    /\ [](\A who \in Users, a \in 0..InitialBalance :
             LET B == liquidBalance[who]
                 old == RequestOf(who)
                 rq == unstake(Cur(0), who, a, "MatchingPool", TRUE)
                 cn == cancel_unstake(Cur(0), who, a)
                 Stored(v) == [Cur(0) EXCEPT !.FastUnstakeRequests[who] = Some(v)]
             IN  /\ a >= MinUnstake =>
                        rq = Ok(Stored(IF old + a <= B THEN old + a ELSE B))
                 /\ cn = Ok(Stored(IF (IF old <= B THEN old ELSE B) >= a
                                   THEN (IF old <= B THEN old ELSE B) - a ELSE 0))
                 /\ a >= MinUnstake => RequestIn(rq.st, who) <= B
                 /\ RequestIn(cn.st, who) <= B)
    /\ [][\A who \in Users :
              fastUnstakeRequests'[who] # fastUnstakeRequests[who] =>
                  RequestIn(Cur(0)', who) <= liquidBalance'[who]]_vars

\* a request was stored for all the derivative the depositor held, and a
\* regular unstake has burnt part of that derivative since: the stored
\* request exceeds the balance until the next request or cancellation
C28_Witness ==
    /\ RequestOf("alice") > liquidBalance["alice"]
    /\ liquidBalance["alice"] > 0
    /\ IsSome(unlockings["alice"])

\* the chunks of a depositor that have matured at the current era, and the
\* chunks that have not, each in the stored order
MaturedOf(who) == SelectSeq(ChunksOf(who), LAMBDA c : c.era <= currentEra)
LaterOf(who) == SelectSeq(ChunksOf(who), LAMBDA c : c.era > currentEra)

\* what the pallet account holds beyond the reserves and the stake total
Unencumbered ==
    stakingBalance[PalletAccount] - totalReserves - StakeAmount.total

\* C29: a claim for a depositor fails with NoUnlockings without an Unlockings
\* entry, with NothingToClaim when no chunk has era <= CurrentEra, with
\* NotWithdrawn when the pallet's balance less reserves and stake total is
\* below the matured sum; otherwise it pays the matured sum to the depositor
\* out of the pallet account and stores the later chunks in their order, no
\* entry when none is left, and nothing else; and a step that lowers a
\* depositor's unlockings is such a claim
C29_ClaimPaysMatured ==
    /\ [](\A who \in Users :
             LET r == claim_for(Cur(0), who)
                 due == SumValues(MaturedOf(who))
             IN  IF ~IsSome(unlockings[who]) THEN r.err = "NoUnlockings"
                 ELSE IF MaturedOf(who) = <<>> THEN r.err = "NothingToClaim"
                 ELSE IF Unencumbered < due THEN r.err = "NotWithdrawn"
                 ELSE r = Ok([Cur(0) EXCEPT
                                 !.Unlockings[who] =
                                     IF LaterOf(who) = <<>> THEN None
                                     ELSE Some(LaterOf(who)),
                                 !.StakingBalance[who] = @ + due,
                                 !.StakingBalance[PalletAccount] = @ - due]))
    /\ [][\A who \in Users :
              SumValues(ChunksOf(who)') < SumValues(ChunksOf(who)) =>
                  /\ MaturedOf(who) # <<>>
                  /\ Unencumbered >= SumValues(MaturedOf(who))
                  /\ ChunksOf(who)' = LaterOf(who)
                  /\ IsSome(unlockings'[who]) <=> LaterOf(who) # <<>>
                  /\ stakingBalance'[who] =
                         stakingBalance[who] + SumValues(MaturedOf(who))
                  /\ stakingBalance'[PalletAccount] =
                         stakingBalance[PalletAccount] - SumValues(MaturedOf(who))]_vars

\* a depositor who staked all they held has been paid a claim and holds a
\* chunk of a later era, which a further claim rejects
C29_Witness ==
    /\ stakingBalance["alice"] \in 1..(InitialBalance - 1)
    /\ MaturedOf("alice") = <<>>
    /\ LaterOf("alice") # <<>>
    /\ claim_for(Cur(0), "alice").err = "NothingToClaim"

\* the whole eras between the era start block and relay block h
WholeEras(h) == CHOOSE k \in 0..h : k * EraLength <= h - eraStartBlock
                                   /\ h - eraStartBlock < (k + 1) * EraLength

\* C30: the era offset at relay block h is the number of whole eras between
\* EraStartBlock and h, and zero when h is before EraStartBlock; an advance
\* by an offset k > 0 at relay block h sets CurrentEra to the old era plus k
\* and EraStartBlock to h; and a block whose hook commits with an offset
\* k > 0 does so, while a block with offset zero leaves both alone
C30_TickOffset ==
    /\ [](\A h \in 0..MaxTickBlock :
             LET at == [Cur(0) EXCEPT !.RelayBlock = h]
                 k == offset(at, h)
                 r == do_advance_era(at, k)
             IN  /\ k = IF h < eraStartBlock THEN 0 ELSE WholeEras(h)
                 /\ r.err = "Ok"
                 /\ k > 0 => /\ r.st.CurrentEra = currentEra + k
                             /\ r.st.EraStartBlock = h
                 /\ k = 0 => r.st = at)
    /\ [][relayBlock' # relayBlock =>
              LET k == IF relayBlock' < eraStartBlock THEN 0 ELSE WholeEras(relayBlock')
              IN  \/ /\ currentEra' = currentEra + k
                     /\ eraStartBlock' = IF k > 0 THEN relayBlock' ELSE eraStartBlock
                  \/ UNCHANGED storage]_vars

\* the hook has advanced the era at a relay block that is not a whole number
\* of eras after the start of the era before
C30_Witness ==
    /\ currentEra > 0
    /\ eraStartBlock = relayBlock
    /\ eraStartBlock % EraLength # 0
    /\ ~isMatched

\* what a settlement of the depositor's fast-unstake request pays the
\* depositor in the staking asset
PaidBy(r, who) == r.st.StakingBalance[who] - stakingBalance[who]

\* a step that settles a queued fast-unstake request: derivative leaves the
\* depositor and the stored request is written
Settlement(who) ==
    /\ fastUnstakeRequests'[who] # fastUnstakeRequests[who]
    /\ liquidBalance'[who] < liquidBalance[who]

\* C31: a fast-unstake settlement pays the depositor at most the free stake
\* (total - locked) of the pool at that time, out of the pallet account,
\* takes exactly what it pays from the stake total and leaves the stake lock
\* and the unstake side alone
C31_SettlesFromFreeStake ==
    /\ [](\A who \in Users :
             LET r == do_fast_match_unstake(Cur(0), who)
             IN  r.err = "Ok" =>
                     /\ PaidBy(r, who) >= 0
                     /\ PaidBy(r, who) <= FreeStake
                     /\ r.st.MatchingPool =
                            [matchingPool EXCEPT
                                !.total_stake_amount.total = @ - PaidBy(r, who)]
                     /\ r.st.StakingBalance[PalletAccount] =
                            stakingBalance[PalletAccount] - PaidBy(r, who))
    /\ [][\A who \in Users :
              Settlement(who) =>
                  /\ stakingBalance'[who] - stakingBalance[who] <= FreeStake
                  /\ StakeAmount'.total =
                         StakeAmount.total - (stakingBalance'[who] - stakingBalance[who])
                  /\ StakeAmount'.locked = StakeAmount.locked
                  /\ UnstakeAmount' = UnstakeAmount]_vars

\* part of the stake is locked by a bond in flight, a settlement has paid the
\* depositor out of the rest, and what it could not settle is still queued
C31_Witness ==
    /\ StakeAmount.locked > 0
    /\ FreeStake = 0
    /\ ~IsSome(unlockings["alice"])
    /\ stakingBalance["alice"] > 0
    /\ IsSome(fastUnstakeRequests["alice"])
    /\ Unwrap(fastUnstakeRequests["alice"]) > 0

\* C32 as stated: right after a step in which a successful confirmation has
\* created or changed the ledger of a delegate, every forced overwrite of that
\* ledger is rejected with StakingLedgerLocked
C32_ConfirmedLedgerLocked ==
    [][\A i \in Indices :
          (ConfirmedFor(i) /\ stakingLedgers'[i] # stakingLedgers[i]) =>
              \A l \in ForcedLedgers(Unwrap(stakingLedgers'[i])) :
                  force_set_staking_ledger(Cur(0), i, l)'.err = "StakingLedgerLocked"]_vars

\* the amounts of the pending requests of the given kinds, from query id q on
RECURSIVE PendingFrom(_, _)
PendingFrom(q, kinds) ==
    IF q \notin QueryIds THEN 0
    ELSE (IF Pending(q) /\ Unwrap(xcmRequests[q]).kind \in kinds
          THEN Unwrap(xcmRequests[q]).amount ELSE 0)
         + PendingFrom(q + 1, kinds)

\* C33: the stake lock is the sum of the amounts of the pending Bond,
\* BondExtra and Rebond requests, and the unstake lock is the sum of the
\* amounts of the pending Unbond requests
C33_LocksArePending ==
    /\ StakeAmount.locked = PendingFrom(0, {"Bond", "BondExtra", "Rebond"})
    /\ UnstakeAmount.locked = PendingFrom(0, {"Unbond"})

\* two bonds are pending at once and one request has been confirmed
C33_Witness ==
    /\ \E q \in QueryIds : applied[q] = 1
    /\ \E q1, q2 \in QueryIds :
           /\ q1 # q2
           /\ Pending(q1) /\ Unwrap(xcmRequests[q1]).kind \in {"Bond", "BondExtra"}
           /\ Pending(q2) /\ Unwrap(xcmRequests[q2]).kind \in {"Bond", "BondExtra"}
    /\ StakeAmount.locked > 1

\* C34 as stated: with ledgers written by confirmations alone, no staking
\* ledger has a total above StakingLedgerCap
C34_LedgerWithinCap ==
    \A i \in Indices :
        IsSome(stakingLedgers[i]) => Unwrap(stakingLedgers[i]).total <= StakingLedgerCap

\* the pending ledger-creating requests for a delegate
PendingBonds(i) ==
    {q \in QueryIds : /\ Pending(q)
                      /\ Unwrap(xcmRequests[q]).kind = "Bond"
                      /\ Unwrap(xcmRequests[q]).index = i}

\* C35 as stated: a delegate has at most one pending Bond request, and none
\* once its ledger exists, so the successful confirmation of a pending Bond
\* is never rejected with AlreadyBonded
C35_OneBondPerDelegate ==
    \A i \in Indices :
        /\ Cardinality(PendingBonds(i)) <= 1
        /\ IsSome(stakingLedgers[i]) => PendingBonds(i) = {}
        /\ \A q \in PendingBonds(i) :
               notification_received(Cur(0), q, "ExecutionOk").err # "AlreadyBonded"

\* C36 as stated: a block whose relay block number is at least EraLength past
\* EraStartBlock increases CurrentEra, whatever becomes of the matching round
\* the hook runs in that block
C36_TickAdvancesEra ==
    [][(relayBlock' # relayBlock /\ relayBlock' >= eraStartBlock + EraLength) =>
           currentEra' > currentEra]_vars

\* C37: the pallet account holds at least the reserves plus the stake total,
\* so get_total_unclaimed is the exact difference balance - reserves - stake
\* total, and a reduction of the reserves that succeeds keeps it so
C37_BalanceCoversStake ==
    /\ stakingBalance[PalletAccount] >= totalReserves + StakeAmount.total
    /\ get_total_unclaimed(Cur(0)) = Unencumbered
    /\ \A reduce_amount \in 1..MaxAmount :
           LET r == reduce_reserves(Cur(0), reduce_amount)
           IN  r.err = "Ok" =>
                   r.st.StakingBalance[PalletAccount] >=
                       r.st.TotalReserves + r.st.MatchingPool.total_stake_amount.total

\* reserves are held, stake waits in the pool, and the pallet account holds
\* more than the two: a claim of the depositor is admitted against the rest
C37_Witness ==
    /\ totalReserves > 0
    /\ StakeAmount.total > 0
    /\ Unencumbered > 0
    /\ claim_for(Cur(0), "alice").err = "Ok"

\* whether a regular unstake by the depositor in the current era would add a
\* chunk to a full list: no chunk of the target era ends the list
NeedsNewChunk(who) ==
    \/ ChunksOf(who) = <<>>
    \/ ChunksOf(who)[Len(ChunksOf(who))].era # currentEra + BondingDuration + 1

\* C38: a stored Unlockings list has between 1 and MAX_UNLOCKING_CHUNKS
\* chunks; a regular unstake that would add a chunk to a list of
\* MAX_UNLOCKING_CHUNKS fails with NoMoreChunks and writes nothing, and no
\* other regular unstake fails with NoMoreChunks
C38_UnlockingsBounded ==
    /\ [](\A who \in Users :
             /\ IsSome(unlockings[who]) =>
                    /\ Len(ChunksOf(who)) >= 1
                    /\ Len(ChunksOf(who)) <= MAX_UNLOCKING_CHUNKS
             /\ \A a \in UnstakeAmounts :
                    LET r == unstake(Cur(0), who, a, "RelayChain", TRUE)
                    IN  IF Len(ChunksOf(who)) = MAX_UNLOCKING_CHUNKS /\ NeedsNewChunk(who)
                        THEN r.err = "NoMoreChunks"
                        ELSE r.err # "NoMoreChunks")
    /\ [][\A who \in Users :
              (Len(ChunksOf(who)) = MAX_UNLOCKING_CHUNKS /\ NeedsNewChunk(who)) =>
                  /\ liquidBalance'[who] >= liquidBalance[who]
                  /\ Len(ChunksOf(who)') <= Len(ChunksOf(who))
                  /\ (unlockings'[who] # unlockings[who] =>
                         stakingBalance'[who] > stakingBalance[who])
                  /\ UnstakeAmount' = UnstakeAmount]_vars

\* the depositor's list is full, the era has moved on since its last chunk
\* was written, and the depositor holds derivative to unstake
C38_Witness ==
    /\ Len(ChunksOf("alice")) = MAX_UNLOCKING_CHUNKS
    /\ NeedsNewChunk("alice")
    /\ liquidBalance["alice"] >= MinUnstake
    /\ unstake(Cur(0), "alice", MinUnstake, "RelayChain", TRUE).err = "NoMoreChunks"

\* a pending request that writes the ledger of delegate i when it is confirmed
PendingOn(q, i) ==
    /\ Pending(q)
    /\ Unwrap(xcmRequests[q]).kind \in
           {"BondExtra", "Unbond", "Rebond", "WithdrawUnbonded"}
    /\ Unwrap(xcmRequests[q]).index = i

\* C39 as stated: two pending requests on one delegate, both confirmed
\* successfully in the current era, leave the same ledger in either order of
\* their confirmations
C39_LedgerOrderFree ==
    \A i \in Indices, q1, q2 \in QueryIds :
        (q1 # q2 /\ PendingOn(q1, i) /\ PendingOn(q2, i)) =>
            LET a == DeliverBoth(q1, q2)
                b == DeliverBoth(q2, q1)
            IN  (a.err = "Ok" /\ b.err = "Ok") =>
                    a.st.StakingLedgers[i] = b.st.StakingLedgers[i]

\* a step that processed a successful confirmation
ConfirmedSome == \E q \in QueryIds : applied'[q] = applied[q] + 1

\* C40: a matching round, whether it succeeds or stops at an error, leaves
\* both totals of the pool as they are and lowers no lock; a round that
\* succeeds adds to the stake lock the amounts of the Bond, BondExtra and
\* Rebond requests it recorded and to the unstake lock the amounts of the
\* Unbond requests it recorded; a lock falls only in a step that processes a
\* successful confirmation; the stake total falls
\* only in a step that processes a successful confirmation or settles a
\* fast-unstake request, and the unstake total only in a step that processes
\* a successful confirmation
C40_RoundKeepsTotals ==
    /\ [](\A xcm_left \in 0..MaxQueryId :
             LET r == do_matching(Cur(xcm_left))
                 pool == r.st.MatchingPool
             IN  /\ pool.total_stake_amount.total = StakeAmount.total
                 /\ pool.total_unstake_amount.total = UnstakeAmount.total
                 /\ pool.total_stake_amount.locked >= StakeAmount.locked
                 /\ pool.total_unstake_amount.locked >= UnstakeAmount.locked
                 /\ r.err = "Ok" =>
                        /\ pool.total_stake_amount.locked = StakeAmount.locked
                               + SubmittedFrom(r.st, nextQueryId,
                                               {"Bond", "BondExtra", "Rebond"})
                        /\ pool.total_unstake_amount.locked = UnstakeAmount.locked
                               + SubmittedFrom(r.st, nextQueryId, {"Unbond"}))
    /\ [][/\ (StakeAmount'.total < StakeAmount.total) =>
                 (ConfirmedSome \/ \E who \in Users : Settlement(who))
          /\ (UnstakeAmount'.total < UnstakeAmount.total) => ConfirmedSome
          /\ (StakeAmount'.locked < StakeAmount.locked) => ConfirmedSome
          /\ (UnstakeAmount'.locked < UnstakeAmount.locked) => ConfirmedSome]_vars

\* a round has committed with stake and unstake both waiting: the unstake it
\* netted against the stake is still in the unstake total, free, and what it
\* sent to be bonded is locked
C40_Witness ==
    /\ isMatched
    /\ nextQueryId > 0
    /\ StakeAmount.locked > 0
    /\ FreeUnstake > 0
    /\ FreeStake >= FreeUnstake

====
